---------------------------- MODULE Spec2Model ----------------------------
(***************************************************************************)
(* Verification model of team_health_manager: the status categorizer, the  *)
(* incident lifecycle reconstruction, the PagerDuty coverage statistics    *)
(* and the execution analyzer's tracking rules.                            *)
(***************************************************************************)
EXTENDS Integers, Sequences, FiniteSets, TLC

(***************************************************************************)
(* Bounds of the model.                                                    *)
(***************************************************************************)
\* Leading characters of a raw status whose letter case is varied.
MaxCasePos == 3

\* Longest event log of one incident.
MaxLogs == 3

\* Latest timestamp of a log entry (timestamps are 0..MaxLogTime).
MaxLogTime == 1

\* Most incidents the PagerDuty API returns for one window.
MaxIncidents == 3

\* Latest instant of the statistics' time line (instants are 0..MaxTime).
MaxTime == 4

\* The window of the statistics is [WindowStart, MaxTime - 1].
WindowStart == 1

\* Latest calendar day of a due or start date (days are 0..MaxDay).
MaxDay == 2

\* Instants of one calendar day a datetime can fall on.
TicksPerDay == 2

\* Most epics of one analysis.
MaxEpics == 2

\* Most stories the tracker holds under one epic.
MaxStories == 2

\* Most vulnerabilities of one team's projects.
MaxVulns == 2

\* Python's None, where the other values are strings or records.
None == "None"

\* Python's None, where the other values are timestamps or dates (all >= 0).
NoTime == -1

\* The outcome of a call: not made yet, an exception raised, a value returned.
Pending == [raised |-> "pending"]

Raised(exception) == [raised |-> exception]

Returned(value) == [raised |-> "no", value |-> value]

HasReturned(outcome) == outcome.raised = "no"

(***************************************************************************)
(* dataclass.py: IssueStatus, STATUS_MAP, Issue.get_status                 *)
(* Strings that the code inspects character by character (str.lower) are   *)
(* sequences of one-character strings.                                     *)
(***************************************************************************)
LowerLetters == << "a", "b", "c", "d", "e", "f", "g", "h", "i", "j", "k", "l", "m",
                   "n", "o", "p", "q", "r", "s", "t", "u", "v", "w", "x", "y", "z" >>

UpperLetters == << "A", "B", "C", "D", "E", "F", "G", "H", "I", "J", "K", "L", "M",
                   "N", "O", "P", "Q", "R", "S", "T", "U", "V", "W", "X", "Y", "Z" >>

\* str.lower() on one ASCII character.
LowerChar(c) ==
  IF \E i \in 1..Len(UpperLetters) : UpperLetters[i] = c
  THEN LowerLetters[CHOOSE i \in 1..Len(UpperLetters) : UpperLetters[i] = c]
  ELSE c

\* str.upper() on one ASCII character (used to build raw tracker labels).
UpperChar(c) ==
  IF \E i \in 1..Len(LowerLetters) : LowerLetters[i] = c
  THEN UpperLetters[CHOOSE i \in 1..Len(LowerLetters) : LowerLetters[i] = c]
  ELSE c

\* A mutated str.lower() that leaves the string as the tracker sent it.
LowerKeepsCase(s) == s

\* str.lower()
Lower(s) == [i \in 1..Len(s) |-> LowerChar(s[i])]

\* class IssueStatus(Enum)
IssueStatus == {"TODO", "IN_PROGRESS", "DONE", "INVALID"}

\* The keys of STATUS_MAP.
K_backlog == <<"b", "a", "c", "k", "l", "o", "g">>

K_todo == <<"t", "o", "d", "o">>

K_to_do == <<"t", "o", " ", "d", "o">>

K_in_progress == <<"i", "n", " ", "p", "r", "o", "g", "r", "e", "s", "s">>

K_assigned == <<"a", "s", "s", "i", "g", "n", "e", "d">>

K_blocked == <<"b", "l", "o", "c", "k", "e", "d">>

K_in_review == <<"i", "n", " ", "r", "e", "v", "i", "e", "w">>

K_pending_product_design_input == <<"p", "e", "n", "d", "i", "n", "g", " ", "p", "r", "o", "d", "u", "c", "t", "/", "d", "e", "s", "i", "g", "n", " ", "i", "n", "p", "u", "t">>

K_done == <<"d", "o", "n", "e">>

K_abandoned == <<"a", "b", "a", "n", "d", "o", "n", "e", "d">>

K_duplicate == <<"d", "u", "p", "l", "i", "c", "a", "t", "e">>

K_wont_fix == <<"w", "o", "n", "t", " ", "f", "i", "x">>

K_won_t_fix == <<"w", "o", "n", "'", "t", " ", "f", "i", "x">>

K_code_review_pending_push == <<"c", "o", "d", "e", " ", "r", "e", "v", "i", "e", "w", " ", "/", " ", "p", "e", "n", "d", "i", "n", "g", " ", "p", "u", "s", "h">>

K_ready_for_deployment == <<"r", "e", "a", "d", "y", " ", "f", "o", "r", " ", "d", "e", "p", "l", "o", "y", "m", "e", "n", "t">>

\* STATUS_MAP: lower-cased raw status -> IssueStatus.
STATUS_MAP ==
  (K_backlog :> "TODO") @@
  (K_todo :> "TODO") @@
  (K_to_do :> "TODO") @@
  (K_in_progress :> "IN_PROGRESS") @@
  (K_assigned :> "IN_PROGRESS") @@
  (K_blocked :> "IN_PROGRESS") @@
  (K_in_review :> "IN_PROGRESS") @@
  (K_pending_product_design_input :> "IN_PROGRESS") @@
  (K_done :> "DONE") @@
  (K_abandoned :> "INVALID") @@
  (K_duplicate :> "INVALID") @@
  (K_wont_fix :> "INVALID") @@
  (K_won_t_fix :> "INVALID") @@
  (K_code_review_pending_push :> "IN_PROGRESS") @@
  (K_ready_for_deployment :> "IN_PROGRESS")

\* Raised by a failed dictionary lookup.
KeyError == "KeyError"

\* A get_status that takes a status the table does not hold for TODO.
GetStatusDefaulting(status) ==
  IF Lower(status) \in DOMAIN STATUS_MAP THEN STATUS_MAP[Lower(status)] ELSE "TODO"

\* Issue.get_status: STATUS_MAP[self.status.lower()]; the value is KeyError
\* when the lookup raises.
GetStatus(status) ==
  IF Lower(status) \in DOMAIN STATUS_MAP THEN STATUS_MAP[Lower(status)] ELSE KeyError

(***************************************************************************)
(* Raw status labels as the tracker may send them.                         *)
(***************************************************************************)
\* Labels that are not keys of STATUS_MAP.
U_triage == <<"t", "r", "i", "a", "g", "e">>

U_to_do == <<"t", "o", "-", "d", "o">>

U_closed == <<"c", "l", "o", "s", "e", "d">>

UnknownLabels == {U_triage, U_to_do, U_closed}

KnownLabels == DOMAIN STATUS_MAP

Labels == KnownLabels \cup UnknownLabels

Min(a, b) == IF a < b THEN a ELSE b

Max(a, b) == IF a > b THEN a ELSE b

\* The label with the characters at the positions in mask upper-cased.
Variant(label, mask) ==
  [i \in 1..Len(label) |-> IF i \in mask THEN UpperChar(label[i]) ELSE label[i]]

\* The label as a tracker displays it: each word capitalised.
Title(label) ==
  [i \in 1..Len(label) |->
     IF i = 1 \/ label[i - 1] = " " THEN UpperChar(label[i]) ELSE label[i]]

Masks(label) == SUBSET (1..Min(MaxCasePos, Len(label)))

RawStatuses ==
  UNION {{Variant(l, m) : m \in Masks(l)} \cup {Title(l)} : l \in Labels}

(***************************************************************************)
(* dataclass.py: Incident                                                  *)
(* A timestamp is an integer; an ISO-8601 string of one format orders as   *)
(* its instant does.  A raw dictionary is a record, a missing key None.    *)
(***************************************************************************)
AUTO_RESOLVE_SUMMARY == "Resolved through the API."

LogTypes ==
  {"acknowledge_log_entry", "resolve_log_entry", "escalate_log_entry", "notify_log_entry"}

\* Log entries of the PagerDuty API: {type, created_at, summary, channel: {type}}.
LogEntry(type, created_at, summary, channel_type) ==
  [type |-> type, created_at |-> created_at, summary |-> summary,
   channel_type |-> channel_type]

LogTimes == {NoTime} \cup (0..MaxLogTime)

LogEntries ==
  {LogEntry("acknowledge_log_entry", t, "Acknowledged by user", None) : t \in LogTimes}
  \cup {LogEntry("resolve_log_entry", t, s, None) :
          t \in LogTimes, s \in {AUTO_RESOLVE_SUMMARY, "Resolved by user"}}
  \cup {LogEntry("escalate_log_entry", t, "Escalated", c) :
          t \in LogTimes, c \in {"timeout", "api"}}
  \cup {LogEntry("notify_log_entry", t, "Notified", None) : t \in LogTimes}

\* Raised by datetime.fromisoformat and by _get_incident_with_logs.
ValueError == "ValueError"

\* A created_at that is present and is no ISO-8601 timestamp.
BadTime == -2

\* datetime.fromisoformat(created_at.replace('Z', '+00:00'))
FromIsoFormat(created_at) ==
  IF created_at = BadTime THEN Raised(ValueError) ELSE Returned(created_at)

\* The fields __post_init__ derives, as they stand before the scan.
UnscannedIncident(raw, raw_logs) ==
  [raw |-> raw,
   raw_logs |-> raw_logs,
   title |-> raw.title,
   created |-> IF raw.created_at # NoTime THEN FromIsoFormat(raw.created_at).value
               ELSE NoTime,
   high_urgency |-> (raw.urgency = "high"),
   first_acknowledge_time |-> NoTime,
   resolved_time |-> NoTime,
   resolution_type |-> None,
   timed_out |-> FALSE]

\* A scan that notes a timeout escalation and goes on to the next entry.
RECURSIVE ScanLogsPastTimeout(_, _, _, _)
ScanLogsPastTimeout(raw_logs, i, has_acknowledgment, inc) ==
  IF i > Len(raw_logs) THEN inc
  ELSE LET log == raw_logs[i]
       IN  IF log.type = "acknowledge_log_entry" /\ log.created_at # NoTime
           THEN [inc EXCEPT !.first_acknowledge_time = log.created_at]
           ELSE IF log.type = "resolve_log_entry" /\ log.created_at # NoTime
           THEN [inc EXCEPT !.resolved_time = log.created_at,
                            !.resolution_type =
                               IF ~has_acknowledgment /\ log.summary = AUTO_RESOLVE_SUMMARY
                               THEN "AUTO" ELSE "MANUAL"]
           ELSE IF log.type = "escalate_log_entry" /\ log.channel_type = "timeout"
           THEN ScanLogsPastTimeout(raw_logs, i + 1, has_acknowledgment,
                                    [inc EXCEPT !.timed_out = TRUE])
           ELSE ScanLogsPastTimeout(raw_logs, i + 1, has_acknowledgment, inc)

\* The loop of __post_init__ over raw_logs from entry i on: the first entry
\* that is an acknowledgement with a timestamp, a resolution with a
\* timestamp or a timeout escalation sets its fields and breaks the loop.
\* has_acknowledgment is set only together with a break.
RECURSIVE ScanLogs(_, _, _, _)
ScanLogs(raw_logs, i, has_acknowledgment, inc) ==
  IF i > Len(raw_logs) THEN inc
  ELSE LET log == raw_logs[i]
       IN  IF log.type = "acknowledge_log_entry" /\ log.created_at # NoTime
           THEN [inc EXCEPT !.first_acknowledge_time = log.created_at]
           ELSE IF log.type = "resolve_log_entry" /\ log.created_at # NoTime
           THEN [inc EXCEPT !.resolved_time = log.created_at,
                            !.resolution_type =
                               IF ~has_acknowledgment /\ log.summary = AUTO_RESOLVE_SUMMARY
                               THEN "AUTO" ELSE "MANUAL"]
           ELSE IF log.type = "escalate_log_entry" /\ log.channel_type = "timeout"
           THEN [inc EXCEPT !.timed_out = TRUE]
           ELSE ScanLogs(raw_logs, i + 1, has_acknowledgment, inc)

\* Incident(raw, raw_logs): the dataclass after __post_init__.
Incident(raw, raw_logs) == ScanLogs(raw_logs, 1, FALSE, UnscannedIncident(raw, raw_logs))

\* The call Incident(raw=..., raw_logs=...): the exception of __post_init__
\* when created_at does not parse, the Incident otherwise.
NewIncident(raw, raw_logs) ==
  IF raw.created_at # NoTime /\ ~HasReturned(FromIsoFormat(raw.created_at))
  THEN FromIsoFormat(raw.created_at)
  ELSE Returned(Incident(raw, raw_logs))

\* Incident.time_to_acknowledgement
TimeToAcknowledgement(inc) ==
  IF inc.first_acknowledge_time = NoTime \/ inc.created = NoTime THEN NoTime
  ELSE inc.first_acknowledge_time - inc.created

(***************************************************************************)
(* clients/pagerduty.py: _get_incident_with_logs                           *)
(***************************************************************************)
\* key=lambda x: x.get("created_at", ""): an entry without timestamp sorts
\* first, as NoTime does.
LogSortKey(log) == log.created_at

\* sorted(log_entries, key=...): stable, by insertion.
RECURSIVE InsertLog(_, _)
InsertLog(sortedSeq, x) ==
  IF sortedSeq = <<>> THEN <<x>>
  ELSE IF LogSortKey(x) < LogSortKey(Head(sortedSeq)) THEN <<x>> \o sortedSeq
  ELSE <<Head(sortedSeq)>> \o InsertLog(Tail(sortedSeq), x)

RECURSIVE SortedLogs(_)
SortedLogs(log_entries) ==
  IF log_entries = <<>> THEN <<>>
  ELSE InsertLog(SortedLogs(SubSeq(log_entries, 1, Len(log_entries) - 1)),
                 log_entries[Len(log_entries)])

\* _get_incident_with_logs(incident_data), log_entries being the answer of
\* the log_entries request.
GetIncidentWithLogs(incident_data, log_entries) ==
  IF incident_data.id = None THEN Raised(ValueError)
  ELSE NewIncident(incident_data, SortedLogs(log_entries))

\* Incident descriptors of the PagerDuty API.
RawIncident(id, created_at, urgency) ==
  [id |-> id, title |-> "Service down", created_at |-> created_at, urgency |-> urgency]

(***************************************************************************)
(* clients/pagerduty.py: get_incidents_for_policy, policy_statistics       *)
(***************************************************************************)
\* get_incidents_for_policy: _get_incident_with_logs for every incident the
\* API lists, in the API's order; the first exception ends the call.
\* api_incidents[i] = [incident_data, log_entries].
GetIncidentsForPolicy(api_incidents) ==
  LET built == [i \in 1..Len(api_incidents) |->
                  GetIncidentWithLogs(api_incidents[i].incident_data,
                                      api_incidents[i].log_entries)]
  IN  IF \E i \in 1..Len(built) : ~HasReturned(built[i])
      THEN Raised(ValueError)
      ELSE Returned([i \in 1..Len(built) |-> built[i].value])

\* sorted(incidents, key=lambda x: x.created): stable, by insertion.
RECURSIVE InsertIncident(_, _)
InsertIncident(sortedSeq, x) ==
  IF sortedSeq = <<>> THEN <<x>>
  ELSE IF x.created < Head(sortedSeq).created THEN <<x>> \o sortedSeq
  ELSE <<Head(sortedSeq)>> \o InsertIncident(Tail(sortedSeq), x)

\* A pass over the incidents in the order supplied, without sorting.
SortedIncidentsAsSupplied(incidents) == incidents

RECURSIVE SortedIncidents(_)
SortedIncidents(incidents) ==
  IF incidents = <<>> THEN <<>>
  ELSE InsertIncident(SortedIncidents(SubSeq(incidents, 1, Len(incidents) - 1)),
                      incidents[Len(incidents)])

\* incident.resolved_time if incident.resolved_time else end
ResolvedOrEnd(inc, end) == IF inc.resolved_time # NoTime THEN inc.resolved_time ELSE end

\* A gap loop that moves current_end to every incident's end, dropping max().
RECURSIVE GapLoopWithoutMax(_, _, _, _, _)
GapLoopWithoutMax(sorted_incidents, i, current_end, total_response_time, end) ==
  IF i > Len(sorted_incidents)
  THEN [current_end |-> current_end, total_response_time |-> total_response_time]
  ELSE LET inc == sorted_incidents[i]
           total == IF inc.created > current_end
                    THEN total_response_time + (inc.created - current_end)
                    ELSE total_response_time
       IN  GapLoopWithoutMax(sorted_incidents, i + 1, ResolvedOrEnd(inc, end), total, end)

\* for incident in sorted_incidents: ... from incident i on; the value is the
\* loop's variables after the last iteration.
RECURSIVE GapLoop(_, _, _, _, _)
GapLoop(sorted_incidents, i, current_end, total_response_time, end) ==
  IF i > Len(sorted_incidents)
  THEN [current_end |-> current_end, total_response_time |-> total_response_time]
  ELSE LET inc == sorted_incidents[i]
           total == IF inc.created > current_end
                    THEN total_response_time + (inc.created - current_end)
                    ELSE total_response_time
       IN  GapLoop(sorted_incidents, i + 1,
                   Max(current_end, ResolvedOrEnd(inc, end)), total, end)

\* A gap accounting whose current_end starts at instant 0, not at start.
TotalResponseTimeFromZero(incidents, start, end) ==
  LET after == GapLoop(SortedIncidents(incidents), 1, 0, 0, end)
  IN  IF after.current_end < end
      THEN after.total_response_time + (end - after.current_end)
      ELSE after.total_response_time

\* "Calculate total response time": the loop, then the time after the last
\* incident.
TotalResponseTime(incidents, start, end) ==
  LET after == GapLoop(SortedIncidents(incidents), 1, start, 0, end)
  IN  IF after.current_end < end
      THEN after.total_response_time + (end - after.current_end)
      ELSE after.total_response_time

\* sum(1 for i in incidents if i.resolution_type == "AUTO")
AutoResolved(incidents) ==
  Cardinality({i \in 1..Len(incidents) : incidents[i].resolution_type = "AUTO"})

\* sum(1 for i in incidents if i.timed_out)
TimedOut(incidents) ==
  Cardinality({i \in 1..Len(incidents) : incidents[i].timed_out})

\* A high-urgency count that takes every incident with an urgency for high.
HighUrgencyCountsAll(incidents) ==
  Cardinality({i \in 1..Len(incidents) : incidents[i].raw.urgency # None})

\* sum(1 for i in incidents if i.high_urgency)
HighUrgencyIncidents(incidents) ==
  Cardinality({i \in 1..Len(incidents) : incidents[i].high_urgency})

RECURSIVE SumSeq(_)
SumSeq(seq) == IF seq = <<>> THEN 0 ELSE Head(seq) + SumSeq(Tail(seq))

\* A list of acknowledgement times that forgets the urgency test.
RECURSIVE AcknowledgmentTimesOfAll(_)
AcknowledgmentTimesOfAll(incidents) ==
  IF incidents = <<>> THEN <<>>
  ELSE LET inc == Head(incidents)
       IN  (IF TimeToAcknowledgement(inc) # NoTime
            THEN <<TimeToAcknowledgement(inc)>> ELSE <<>>)
           \o AcknowledgmentTimesOfAll(Tail(incidents))

\* [i.time_to_acknowledgement for i in incidents
\*    if i.high_urgency and i.time_to_acknowledgement is not None]
RECURSIVE AcknowledgmentTimes(_)
AcknowledgmentTimes(incidents) ==
  IF incidents = <<>> THEN <<>>
  ELSE LET inc == Head(incidents)
       IN  (IF inc.high_urgency /\ TimeToAcknowledgement(inc) # NoTime
            THEN <<TimeToAcknowledgement(inc)>> ELSE <<>>)
           \o AcknowledgmentTimes(Tail(incidents))

\* sum(acknowledgment_times, timedelta()) / len(acknowledgment_times), kept as
\* the exact quotient [sum, count]; None when there is no time.
MeanTimeToAck(incidents) ==
  LET acknowledgment_times == AcknowledgmentTimes(incidents)
  IN  IF acknowledgment_times = <<>> THEN [sum |-> NoTime, count |-> 0]
      ELSE [sum |-> SumSeq(acknowledgment_times), count |-> Len(acknowledgment_times)]

\* PagerDutyStats(total_incidents, auto_resolved, timed_out,
\*   high_urgency_incidents, mean_time_to_acknowledgement, total_response_time)
PagerDutyStats(total, auto, timed, high, mean, response) ==
  [total_incidents |-> total,
   auto_resolved |-> auto,
   timed_out |-> timed,
   high_urgency_incidents |-> high,
   mean_time_to_acknowledgement |-> mean,
   total_response_time |-> response]

TypeError == "TypeError"

\* policy_statistics(escalation_policy_id, start, end), api_incidents being
\* what the API lists for the policy's services in the window.
PolicyStatistics(api_incidents, start, end) ==
  LET fetched == GetIncidentsForPolicy(api_incidents)
  IN  IF ~HasReturned(fetched) THEN fetched
      ELSE LET incidents == fetched.value
           IN  IF incidents = <<>>
               THEN Returned(PagerDutyStats(0, 0, 0, 0, [sum |-> NoTime, count |-> 0], 0))
               \* an incident without created time cannot be ordered or compared
               ELSE IF \E i \in 1..Len(incidents) : incidents[i].created = NoTime
               THEN Raised(TypeError)
               ELSE Returned(PagerDutyStats(
                      Len(incidents),
                      AutoResolved(incidents),
                      TimedOut(incidents),
                      HighUrgencyIncidents(incidents),
                      MeanTimeToAck(incidents),
                      TotalResponseTime(incidents, start, end)))

(***************************************************************************)
(* dataclass.py: Epic, Story, EpicUpdate, TrackingProblem, evaluations     *)
(* A date is a day number; a datetime is an instant, TicksPerDay of them   *)
(* to the day.  An issue's key is a tuple: <<e>> for epic e, <<e, s>> for  *)
(* its story s.                                                            *)
(***************************************************************************)
\* datetime.date()
DateOf(datetime) == datetime \div TicksPerDay

\* Epic.last_epic_update = None
NoEpicUpdate == [none |-> TRUE]

\* EpicUpdate(updated, content, status)
EpicUpdate(updated, content, update_status) ==
  [updated |-> updated, content |-> content, status |-> update_status]

\* Epic(key, status, due_date, start_date, last_epic_update)
Epic(key, raw_status, due_date, start_date, last_epic_update) ==
  [type |-> "Epic", key |-> key, status |-> raw_status, due_date |-> due_date,
   start_date |-> start_date, last_epic_update |-> last_epic_update]

\* Story(key, status, due_date, start_date)
Story(key, raw_status, due_date, start_date) ==
  [type |-> "Story", key |-> key, status |-> raw_status, due_date |-> due_date,
   start_date |-> start_date]

\* class ProblemType(Enum)
ProblemType ==
  {"MISSING_START_DATE", "MISSING_DUE_DATE", "PAST_DUE_DATE",
   "IN_PROGRESS_BEFORE_START_DATE", "MISSING_EPIC_UPDATE",
   "IN_PROGRESS_EPIC_WITHOUT_STORIES", "DUE_DATE_CHANGED", "LOW_EPIC_UPDATE_SCORE"}

\* A TrackingProblem that reports a passed due date as a changed one.
TrackingProblemDueDateChanged(problem_type, issue) ==
  [problem_type |-> IF problem_type = "PAST_DUE_DATE" THEN "DUE_DATE_CHANGED"
                    ELSE problem_type,
   issue |-> issue.key, issue_type |-> issue.type]

\* TrackingProblem(problem_type, description, issue); the description is a
\* text made of the issue's type and key, kept as those.
TrackingProblem(problem_type, issue) ==
  [problem_type |-> problem_type, issue |-> issue.key, issue_type |-> issue.type]

(***************************************************************************)
(* execution_analyzer.py: _analyze_status, _has_epic_update,               *)
(* score_epic_update                                                       *)
(***************************************************************************)
\* <<x>> if the test holds, else <<>>: an "if ...: problems.append(x)".
AppendIf(test, x) == IF test THEN <<x>> ELSE <<>>

\* An _analyze_status whose past-due test is "<=" (a due date of today fires).
AnalyzeStatusDueTodayIsPast(issue, today) ==
  LET st == GetStatus(issue.status)
  IN  IF st = KeyError THEN Raised(KeyError)
      ELSE Returned(
        AppendIf(st \in {"TODO", "IN_PROGRESS"} /\ issue.due_date = NoTime,
                 TrackingProblem("MISSING_DUE_DATE", issue))
        \o AppendIf(st = "TODO" /\ issue.start_date = NoTime,
                    TrackingProblem("MISSING_START_DATE", issue))
        \o AppendIf(st = "TODO" /\ issue.start_date # NoTime /\ issue.start_date < today,
                    TrackingProblem("IN_PROGRESS_BEFORE_START_DATE", issue))
        \o AppendIf(st = "IN_PROGRESS" /\ issue.start_date # NoTime
                      /\ issue.start_date > today,
                    TrackingProblem("IN_PROGRESS_BEFORE_START_DATE", issue))
        \o AppendIf(st \notin {"DONE", "INVALID"} /\ issue.due_date # NoTime
                      /\ issue.due_date <= today,
                    TrackingProblem("PAST_DUE_DATE", issue)))

\* An _analyze_status that asks every open issue, not only a TODO one, for a
\* start date.
AnalyzeStatusStartDateForOpen(issue, today) ==
  LET st == GetStatus(issue.status)
  IN  IF st = KeyError THEN Raised(KeyError)
      ELSE Returned(
        AppendIf(st \in {"TODO", "IN_PROGRESS"} /\ issue.due_date = NoTime,
                 TrackingProblem("MISSING_DUE_DATE", issue))
        \o AppendIf(st \in {"TODO", "IN_PROGRESS"} /\ issue.start_date = NoTime,
                    TrackingProblem("MISSING_START_DATE", issue))
        \o AppendIf(st = "TODO" /\ issue.start_date # NoTime /\ issue.start_date < today,
                    TrackingProblem("IN_PROGRESS_BEFORE_START_DATE", issue))
        \o AppendIf(st = "IN_PROGRESS" /\ issue.start_date # NoTime
                      /\ issue.start_date > today,
                    TrackingProblem("IN_PROGRESS_BEFORE_START_DATE", issue))
        \o AppendIf(st \notin {"DONE", "INVALID"} /\ issue.due_date # NoTime
                      /\ issue.due_date < today,
                    TrackingProblem("PAST_DUE_DATE", issue)))

\* An _analyze_status whose in-progress start-date test is ">=" (a start date
\* of today fires).
AnalyzeStatusStartTodayIsFuture(issue, today) ==
  LET st == GetStatus(issue.status)
  IN  IF st = KeyError THEN Raised(KeyError)
      ELSE Returned(
        AppendIf(st \in {"TODO", "IN_PROGRESS"} /\ issue.due_date = NoTime,
                 TrackingProblem("MISSING_DUE_DATE", issue))
        \o AppendIf(st = "TODO" /\ issue.start_date = NoTime,
                    TrackingProblem("MISSING_START_DATE", issue))
        \o AppendIf(st = "TODO" /\ issue.start_date # NoTime /\ issue.start_date < today,
                    TrackingProblem("IN_PROGRESS_BEFORE_START_DATE", issue))
        \o AppendIf(st = "IN_PROGRESS" /\ issue.start_date # NoTime
                      /\ issue.start_date >= today,
                    TrackingProblem("IN_PROGRESS_BEFORE_START_DATE", issue))
        \o AppendIf(st \notin {"DONE", "INVALID"} /\ issue.due_date # NoTime
                      /\ issue.due_date < today,
                    TrackingProblem("PAST_DUE_DATE", issue)))

\* _analyze_status(issue), today being date.today(): the problems of one
\* epic or story, in the order of the five tests; get_status raises KeyError
\* for a status STATUS_MAP does not hold.
AnalyzeStatus(issue, today) ==
  LET st == GetStatus(issue.status)
  IN  IF st = KeyError THEN Raised(KeyError)
      ELSE Returned(
        AppendIf(st \in {"TODO", "IN_PROGRESS"} /\ issue.due_date = NoTime,
                 TrackingProblem("MISSING_DUE_DATE", issue))
        \o AppendIf(st = "TODO" /\ issue.start_date = NoTime,
                    TrackingProblem("MISSING_START_DATE", issue))
        \o AppendIf(st = "TODO" /\ issue.start_date # NoTime /\ issue.start_date < today,
                    TrackingProblem("IN_PROGRESS_BEFORE_START_DATE", issue))
        \o AppendIf(st = "IN_PROGRESS" /\ issue.start_date # NoTime
                      /\ issue.start_date > today,
                    TrackingProblem("IN_PROGRESS_BEFORE_START_DATE", issue))
        \o AppendIf(st \notin {"DONE", "INVALID"} /\ issue.due_date # NoTime
                      /\ issue.due_date < today,
                    TrackingProblem("PAST_DUE_DATE", issue)))

\* "return last_update_age.days < 7"
FRESH_DAYS == 7

\* A _has_epic_update that still takes an update of exactly 7 days as recent.
HasEpicUpdateUpToSevenDays(epic, today) ==
  IF epic.last_epic_update = NoEpicUpdate THEN FALSE
  ELSE IF epic.last_epic_update.updated = NoTime THEN FALSE
  ELSE today - DateOf(epic.last_epic_update.updated) <= FRESH_DAYS

\* _has_epic_update(epic), today being date.today()
HasEpicUpdate(epic, today) ==
  IF epic.last_epic_update = NoEpicUpdate THEN FALSE
  ELSE IF epic.last_epic_update.updated = NoTime THEN FALSE
  ELSE today - DateOf(epic.last_epic_update.updated) < FRESH_DAYS

\* The keys score_epic_update reads from the oracle's JSON.
CriteriaKeys ==
  {"Epic Status Clarity", "Deliverables Defined", "Risk Identification And Mitigation",
   "Status Enum Justification", "Delivery Confidence"}

EvaluationKeys == CriteriaKeys \cup {"Average Score"}

\* The oracle's answer to one prompt: the API call fails, or the text holds
\* no braces ("prose"), braces around what is no JSON ("broken_json"), or a
\* JSON object ("json") with these keys and this "Average Score", in
\* hundredths.
AIResponse(api_ok, body, keys, average) ==
  [api_ok |-> api_ok, body |-> body, keys |-> keys, average |-> average]

\* EpicStatusEvaluation(epic_key, <five Evaluations>, average_score); the
\* five are kept as the names of the criteria read.
EpicStatusEvaluation(epic_key, criteria, average_score) ==
  [epic_key |-> epic_key, criteria |-> criteria, average_score |-> average_score]

\* A score_epic_update that answers a response it cannot parse with a
\* neutral evaluation instead of raising.
ScoreEpicUpdateSwallowing(epic, response) ==
  IF response.api_ok /\ response.body = "json" /\ EvaluationKeys \subseteq response.keys
  THEN Returned(EpicStatusEvaluation(epic.key, CriteriaKeys, response.average))
  ELSE Returned(EpicStatusEvaluation(epic.key, {}, 500))

\* score_epic_update(epic), response being the oracle's answer.
ScoreEpicUpdate(epic, response) ==
  IF epic.last_epic_update = NoEpicUpdate THEN Raised(ValueError)
  ELSE IF epic.last_epic_update.content = "" THEN Raised(ValueError)
  ELSE IF ~response.api_ok THEN Raised("Exception")
  ELSE IF response.body = "prose" THEN Raised(ValueError)
  ELSE IF response.body = "broken_json" THEN Raised("Exception")
  ELSE IF ~(EvaluationKeys \subseteq response.keys) THEN Raised("Exception")
  ELSE Returned(EpicStatusEvaluation(epic.key, CriteriaKeys, response.average))

\* "epic_status_evaluation.average_score <= 3.5", in hundredths.
LOW_SCORE == 350

\* A low-score test that spares an average of exactly 3.5.
IsLowScoreBelowOnly(evaluation) == evaluation.average_score < LOW_SCORE

\* epic_status_evaluation.average_score <= 3.5
IsLowScore(evaluation) == evaluation.average_score <= LOW_SCORE

\* A story loop that looks at the first story only.
AnalyzeStoriesFirstOnly(stories, today, problems) ==
  IF stories = <<>> THEN Returned(problems)
  ELSE LET found == AnalyzeStatus(Head(stories), today)
       IN  IF ~HasReturned(found) THEN found
           ELSE Returned(problems \o found.value)

\* A story loop that walks the stories from the last to the first.
RECURSIVE AnalyzeStoriesReversed(_, _, _)
AnalyzeStoriesReversed(stories, today, problems) ==
  IF stories = <<>> THEN Returned(problems)
  ELSE LET found == AnalyzeStatus(stories[Len(stories)], today)
       IN  IF ~HasReturned(found) THEN found
           ELSE AnalyzeStoriesReversed(SubSeq(stories, 1, Len(stories) - 1), today,
                                       problems \o found.value)

\* "for story in stories: problems.extend(self._analyze_status(story))": the
\* problems list after the loop, or the exception that ended it.
RECURSIVE AnalyzeStories(_, _, _)
AnalyzeStories(stories, today, problems) ==
  IF stories = <<>> THEN Returned(problems)
  ELSE LET found == AnalyzeStatus(Head(stories), today)
       IN  IF ~HasReturned(found) THEN found
           ELSE AnalyzeStories(Tail(stories), today, problems \o found.value)

\* A story list that is assigned where it should be extended.
ExtendStoriesReplacing(all_stories, stories) == stories

\* "for story in stories: ... all_stories.append(story)": all_stories after
\* the loop over the stories of one epic.
ExtendStories(all_stories, stories) == all_stories \o stories

\* The locals of analyze_epics.
Frame(problems, all_stories, evaluations) ==
  [problems |-> problems, all_stories |-> all_stories, evaluations |-> evaluations]

\* A prompt whose {{status}} placeholder was never replaced.
PromptStatusNotFilled(update) == [status |-> "{{status}}", update |-> update.content]

\* The prompt score_epic_update sends: the template with {{status}} and
\* {{update}} replaced by the update's status and content.
Prompt(update) == [status |-> update.status, update |-> update.content]

\* The prompts score_epic_update(epic) hands to ai_client.call_api: none when
\* the validation of the update raises first.
PromptsOf(epic) ==
  IF epic.last_epic_update = NoEpicUpdate THEN <<>>
  ELSE IF epic.last_epic_update.content = "" THEN <<>>
  ELSE <<Prompt(epic.last_epic_update)>>

\* A test that also takes an epic still to do as being in progress.
IsInProgressOrTodo(epic) == GetStatus(epic.status) \in {"IN_PROGRESS", "TODO"}

\* epic.get_status() == IssueStatus.IN_PROGRESS; otherwise the loop continues
\* with the next epic.
IsInProgress(epic) == GetStatus(epic.status) = "IN_PROGRESS"

\* A call to a collaborator: self.jira_client.get_stories_by_epic(epic.key),
\* or self.ai_client.call_api(prompt) made for the epic.
StoryFetch(epic) == [to |-> "get_stories_by_epic", epic |-> epic.key]

OracleCall(epic, prompt) == [to |-> "call_api", epic |-> epic.key, prompt |-> prompt]

IsStoryFetch(call) == call.to = "get_stories_by_epic"

IsOracleCall(call) == call.to = "call_api"

\* A score_epic_update that asks the oracle a second time.
ScoreCallsTwice(epic) ==
  [n \in 1..(2 * Len(PromptsOf(epic))) |-> OracleCall(epic, PromptsOf(epic)[1])]

\* The calls score_epic_update(epic) makes.
ScoreCalls(epic) ==
  [n \in 1..Len(PromptsOf(epic)) |-> OracleCall(epic, PromptsOf(epic)[n])]

\* How one iteration of the loop ends: the locals after it or the exception
\* raised, and the calls it made to the collaborators, in order; of these,
\* the epic keys it asked get_stories_by_epic for and the prompts it sent
\* to the oracle.
IterationEnd(outcome, calls) ==
  [outcome |-> outcome,
   calls |-> calls,
   fetched |-> LET fetches == SelectSeq(calls, IsStoryFetch)
               IN  [n \in 1..Len(fetches) |-> fetches[n].epic],
   prompts |-> LET asked == SelectSeq(calls, IsOracleCall)
               IN  [n \in 1..Len(asked) |-> asked[n].prompt]]

\* One iteration of "for epic in epics".  stories is what
\* get_stories_by_epic returns for the epic, response what the oracle
\* answers for its update.
AnalyzeEpicBody(epic, today, stories, response, frame) ==
  LET own == AnalyzeStatus(epic, today)
  IN  IF ~HasReturned(own) THEN IterationEnd(own, <<>>)
      ELSE IF ~IsInProgress(epic)
      THEN IterationEnd(Returned(Frame(frame.problems \o own.value, frame.all_stories,
                                       frame.evaluations)),
                        <<>>)
      ELSE
        LET fetch == <<StoryFetch(epic)>>
            afterStories ==
              IF stories = <<>>
              THEN Returned(frame.problems \o own.value
                            \o <<TrackingProblem("IN_PROGRESS_EPIC_WITHOUT_STORIES", epic)>>)
              ELSE AnalyzeStories(stories, today, frame.problems \o own.value)
        IN  IF ~HasReturned(afterStories) THEN IterationEnd(afterStories, fetch)
            ELSE IF ~HasEpicUpdate(epic, today)
            THEN IterationEnd(
                   Returned(Frame(
                     afterStories.value \o <<TrackingProblem("MISSING_EPIC_UPDATE", epic)>>,
                     ExtendStories(frame.all_stories, stories),
                     frame.evaluations)),
                   fetch)
            ELSE
              LET scored == ScoreEpicUpdate(epic, response)
              IN  IF ~HasReturned(scored)
                  THEN IterationEnd(scored, fetch \o ScoreCalls(epic))
                  ELSE IterationEnd(
                         Returned(Frame(
                           afterStories.value
                             \o AppendIf(IsLowScore(scored.value),
                                         TrackingProblem("LOW_EPIC_UPDATE_SCORE", epic)),
                           ExtendStories(frame.all_stories, stories),
                           (epic.key :> scored.value) @@ frame.evaluations)),
                         fetch \o ScoreCalls(epic))

\* ExecutionReport(epics, problems, stories, evaluations)
ExecutionReport(epics, problems, stories, evaluations) ==
  [epics |-> epics, problems |-> problems, stories |-> stories,
   evaluations |-> evaluations]

(***************************************************************************)
(* execution_analyzer.py: build_statistics                                 *)
(***************************************************************************)
\* class ExecutionStats
ExecutionStats(in_progress_epics, counts) ==
  [in_progress_epics |-> in_progress_epics,
   missing_start_date |-> counts["MISSING_START_DATE"],
   missing_due_date |-> counts["MISSING_DUE_DATE"],
   past_due_date |-> counts["PAST_DUE_DATE"],
   in_progress_before_start_date |-> counts["IN_PROGRESS_BEFORE_START_DATE"],
   missing_epic_update |-> counts["MISSING_EPIC_UPDATE"],
   in_progress_epic_without_stories |-> counts["IN_PROGRESS_EPIC_WITHOUT_STORIES"],
   due_date_changed |-> counts["DUE_DATE_CHANGED"]]

\* sum(1 for problem in report.problems if problem.problem_type == problem_type)
CountProblems(problems, problem_type) ==
  Cardinality({n \in 1..Len(problems) : problems[n].problem_type = problem_type})

\* sum(1 for epic in epics if epic.get_status() == IssueStatus.IN_PROGRESS)
CountInProgress(epics) ==
  Cardinality({e \in 1..Len(epics) : IsInProgress(epics[e])})

\* build_statistics(epics) from "report = self.analyze_epics(epics)" on,
\* analysis being the outcome of that call: its exception, or the counts.
BuildStatistics(epics, analysis) ==
  IF ~HasReturned(analysis) THEN analysis
  ELSE Returned(ExecutionStats(
         CountInProgress(epics),
         [kind \in ProblemType |-> CountProblems(analysis.value.problems, kind)]))

(***************************************************************************)
(* statistics_generator.py: ExecutionStatistics.get_report                 *)
(***************************************************************************)
\* class Team: the fields get_report reads.
Team(name, project_keys) == [name |-> name, project_keys |-> project_keys]

\* The call self.jira_client.get_epics_by_label(project_key, self.label).
EpicFetch(project_key) == [to |-> "get_epics_by_label", project |-> project_key]

\* An outcome together with the calls made to the collaborators to reach it.
Computed(outcome, calls) == [outcome |-> outcome, calls |-> calls]

\* "for project_key in team.project_keys: ..." from key i on; tracker maps a
\* project key to the outcome of get_epics_by_label for it.
RECURSIVE FetchEpics(_, _, _, _, _)
FetchEpics(project_keys, i, tracker, all_epics, calls) ==
  IF i > Len(project_keys) THEN Computed(Returned(all_epics), calls)
  ELSE LET answer == tracker[project_keys[i]]
           made == Append(calls, EpicFetch(project_keys[i]))
       IN  IF ~HasReturned(answer) THEN Computed(answer, made)
           ELSE FetchEpics(project_keys, i + 1, tracker, all_epics \o answer.value, made)

\* The element of a one-element set: names a value that is computed once.
The(S) == CHOOSE x \in S : TRUE

\* analyze_epics(epics): its loop from epic i on, then its return.
RECURSIVE AnalyzeEpicsFrom(_, _, _, _, _, _, _)
AnalyzeEpicsFrom(epics, i, today, stories_of, responses, frame, calls) ==
  IF i > Len(epics)
  THEN Computed(Returned(ExecutionReport(epics, frame.problems, frame.all_stories,
                                         frame.evaluations)),
                calls)
  ELSE The({IF ~HasReturned(after.outcome)
            THEN Computed(after.outcome, calls \o after.calls)
            ELSE AnalyzeEpicsFrom(epics, i + 1, today, stories_of, responses,
                                  after.outcome.value, calls \o after.calls) :
              after \in {AnalyzeEpicBody(epics[i], today, stories_of[epics[i].key],
                                         responses[epics[i].key], frame)}})

\* self.analyzer.analyze_epics(all_epics)
AnalyzeEpics(epics, today, stories_of, responses) ==
  AnalyzeEpicsFrom(epics, 1, today, stories_of, responses, Frame(<<>>, <<>>, <<>>), <<>>)

\* The body of "if team.name not in self.reports" up to the analysis.
ComputeReport(team, today, tracker, stories_of, responses) ==
  The({IF ~HasReturned(fetched.outcome) THEN fetched
       ELSE The({Computed(analysis.outcome, fetched.calls \o analysis.calls) :
                   analysis \in {AnalyzeEpics(fetched.outcome.value, today, stories_of,
                                              responses)}}) :
         fetched \in {FetchEpics(team.project_keys, 1, tracker, <<>>, <<>>)}})

\* What a get_report call leaves: self.reports, its outcome, its calls.
ReportCall(reports, outcome, calls) ==
  [reports |-> reports, outcome |-> outcome, calls |-> calls]

\* "self.reports[team.name] = report; return self.reports[team.name]" when
\* made, the fetch and the analysis, returned; their exception otherwise.
StoreReport(reports, team, made) ==
  IF HasReturned(made.outcome)
  THEN ReportCall((team.name :> made.outcome.value) @@ reports, made.outcome, made.calls)
  ELSE ReportCall(reports, made.outcome, made.calls)

\* A get_report that does not look into self.reports first.
GetReportRecomputing(reports, team, today, tracker, stories_of, responses) ==
  The({StoreReport(reports, team, made) :
         made \in {ComputeReport(team, today, tracker, stories_of, responses)}})

\* get_report(team), reports being self.reports before the call.
GetReport(reports, team, today, tracker, stories_of, responses) ==
  IF team.name \in DOMAIN reports
  THEN ReportCall(reports, Returned(reports[team.name]), <<>>)
  ELSE The({StoreReport(reports, team, made) :
              made \in {ComputeReport(team, today, tracker, stories_of, responses)}})

(***************************************************************************)
(* execution_analyzer.py: build_vulnerability_stats                        *)
(***************************************************************************)
\* Vulnerability(key, status, due_date)
Vulnerability(key, raw_status, due_date) ==
  [type |-> "Vulnerability", key |-> key, status |-> raw_status, due_date |-> due_date]

\* VulnerabilityStats(open_vulnerabilities, vulnerabilities_past_due_date,
\*                    vulnerabilities)
VulnerabilityStats(open_vulnerabilities, past_due_date, vulnerabilities) ==
  [open_vulnerabilities |-> open_vulnerabilities,
   vulnerabilities_past_due_date |-> past_due_date,
   vulnerabilities |-> vulnerabilities]

\* sum(1 for vulnerability in vulnerabilities
\*     if vulnerability.get_status() in [IssueStatus.TODO, IssueStatus.IN_PROGRESS])
OpenVulnerabilities(vulnerabilities) ==
  Cardinality({i \in 1..Len(vulnerabilities) :
                 GetStatus(vulnerabilities[i].status) \in {"TODO", "IN_PROGRESS"}})

\* A past-due count that looks at the open vulnerabilities only.
PastDueDateOfOpen(vulnerabilities, today) ==
  Cardinality({i \in 1..Len(vulnerabilities) :
                 /\ GetStatus(vulnerabilities[i].status) \in {"TODO", "IN_PROGRESS"}
                 /\ vulnerabilities[i].due_date # NoTime
                 /\ vulnerabilities[i].due_date < today})

\* sum(1 for vulnerability in vulnerabilities
\*     if vulnerability.due_date and vulnerability.due_date < date.today())
PastDueDate(vulnerabilities, today) ==
  Cardinality({i \in 1..Len(vulnerabilities) :
                 /\ vulnerabilities[i].due_date # NoTime
                 /\ vulnerabilities[i].due_date < today})

\* build_vulnerability_stats(vulnerabilities), today being date.today();
\* get_status raises KeyError for the first status STATUS_MAP does not hold.
BuildVulnerabilityStats(vulnerabilities, today) ==
  IF \E i \in 1..Len(vulnerabilities) : GetStatus(vulnerabilities[i].status) = KeyError
  THEN Raised(KeyError)
  ELSE Returned(VulnerabilityStats(OpenVulnerabilities(vulnerabilities),
                                   PastDueDate(vulnerabilities, today),
                                   vulnerabilities))

\* Sequences over S of length at most n.
SeqsUpTo(S, n) == UNION {[1..k -> S] : k \in 0..n}

(***************************************************************************)
(* State.                                                                  *)
(***************************************************************************)
VARIABLES
  status,          \* Issue.status of the issue get_status is called on
  status_result,   \* None before the call, then its value or KeyError
  incident_data,   \* the incident descriptor the API returned
  log_entries,     \* the log entries the API returned for it, in API order
  incident,        \* the outcome of _get_incident_with_logs: the Incident built
  api_incidents,   \* the incidents the API lists: [incident_data, log_entries]
  pd_stats,        \* the outcome of policy_statistics
  epics,           \* analyze_epics: the epics passed in
  today,           \* date.today()
  jira_stories,    \* epic key -> what get_stories_by_epic returns for it
  ai_responses,    \* epic key -> what the score oracle answers for its update
  an_index,        \* analyze_epics: position of the next epic of the loop
  problems,        \* analyze_epics: local problems
  all_stories,     \* analyze_epics: local all_stories
  evaluations,     \* analyze_epics: local evaluations
  report,          \* the outcome of analyze_epics
  exec_stats,      \* the outcome of build_statistics
  jira_calls,      \* the epic keys get_stories_by_epic was called with, in order
  ai_calls,        \* the prompts ai_client.call_api was called with, in order
  call_log,        \* the calls to the tracker and the oracle, in the order made
  vulnerabilities, \* build_vulnerability_stats: the vulnerabilities passed in
  vuln_today,      \* build_vulnerability_stats: date.today()
  vuln_stats,      \* the outcome of build_vulnerability_stats
  reports,         \* ExecutionStatistics: self.reports, team name -> report
  tracker,         \* project key -> what get_epics_by_label answers now
  last_call,       \* the last get_report call: its team, outcome and calls
  get_report_calls,\* how many get_report calls were made
  successes,       \* team name -> get_report calls that computed a report
  failures         \* team name -> get_report calls that raised

statusVars == <<status, status_result>>

incidentVars == <<incident_data, log_entries, incident>>

statsVars == <<api_incidents, pd_stats>>

analysisInputs == <<epics, today, jira_stories, ai_responses>>

callVars == <<jira_calls, ai_calls, call_log>>

analysisVars ==
  <<analysisInputs, an_index, problems, all_stories, evaluations, report, callVars,
    exec_stats>>

vulnVars == <<vulnerabilities, vuln_today, vuln_stats>>

cacheVars == <<reports, tracker, last_call, get_report_calls, successes, failures>>

vars == <<statusVars, incidentVars, statsVars, analysisVars, vulnVars, cacheVars>>

StatusIdle == status = <<>> /\ status_result = None

NoDescriptor == RawIncident(None, NoTime, None)

IncidentIdle ==
  incident_data = NoDescriptor /\ log_entries = <<>> /\ incident = Raised("unused")

StatsIdle == api_incidents = <<>> /\ pd_stats = Raised("unused")

AnalysisIdle ==
  /\ epics = <<>> /\ today = 0 /\ jira_stories = <<>> /\ ai_responses = <<>>
  /\ an_index = 0 /\ problems = <<>> /\ all_stories = <<>> /\ evaluations = <<>>
  /\ report = Raised("unused") /\ exec_stats = Raised("unused")
  /\ jira_calls = <<>> /\ ai_calls = <<>> /\ call_log = <<>>

VulnIdle == vulnerabilities = <<>> /\ vuln_today = 0 /\ vuln_stats = Raised("unused")

NoCall == [team |-> Team(None, <<>>), outcome |-> Pending, calls |-> <<>>]

CacheIdle ==
  /\ reports = <<>> /\ tracker = <<>> /\ last_call = NoCall
  /\ get_report_calls = 0 /\ successes = <<>> /\ failures = <<>>

(***************************************************************************)
(* Status categorizer: one call of Issue.get_status.                       *)
(***************************************************************************)
InitStatus ==
  /\ status \in RawStatuses
  /\ status_result = None
  /\ IncidentIdle
  /\ StatsIdle
  /\ AnalysisIdle
  /\ VulnIdle
  /\ CacheIdle

\* issue.get_status()
CallGetStatus ==
  /\ status_result = None
  /\ status # <<>>
  /\ status_result' = GetStatus(status)
  /\ UNCHANGED <<status, incidentVars, statsVars, analysisVars, vulnVars, cacheVars>>

NextStatus == CallGetStatus

SpecStatus == InitStatus /\ [][NextStatus]_vars

\* C9: get_status returns the STATUS_MAP entry of the lower-cased raw status,
\* so every letter-case variant of a table key gets that key's canonical
\* status, and every raw status whose lower-cased form is no key raises
\* KeyError instead of yielding a default.
C9_CaseInsensitiveLookupOrKeyError ==
  status_result # None =>
    /\ \A l \in Labels :
         (status = Title(l) \/ \E m \in Masks(l) : status = Variant(l, m)) =>
           status_result = IF l \in KnownLabels THEN STATUS_MAP[l] ELSE KeyError
    /\ status_result \in IssueStatus \cup {KeyError}
    /\ (status_result = KeyError) <=> (Lower(status) \notin KnownLabels)

\* C9 witness: a mixed-case spelling of a known label was categorised.
C9_Witness ==
  /\ status = Title(K_in_progress)
  /\ status # K_in_progress
  /\ status_result = "IN_PROGRESS"

(***************************************************************************)
(* Incident reconstruction: one call of _get_incident_with_logs.           *)
(***************************************************************************)
\* Descriptors: a complete one, and one lacking each field in turn.
IncidentDescriptors ==
  {RawIncident("PD1", 0, "high"), RawIncident("PD1", 0, "low"),
   RawIncident("PD1", NoTime, "high"), RawIncident(None, 0, "high")}

InitIncident ==
  /\ incident_data \in IncidentDescriptors
  /\ log_entries \in SeqsUpTo(LogEntries, MaxLogs)
  /\ incident = Pending
  /\ StatusIdle
  /\ StatsIdle
  /\ AnalysisIdle
  /\ VulnIdle
  /\ CacheIdle

\* self._get_incident_with_logs(incident_data)
CallGetIncidentWithLogs ==
  /\ incident = Pending
  /\ incident' = GetIncidentWithLogs(incident_data, log_entries)
  /\ UNCHANGED <<incident_data, log_entries, statusVars, statsVars, analysisVars, vulnVars, cacheVars>>

NextIncident == CallGetIncidentWithLogs

SpecIncident == InitIncident /\ [][NextIncident]_vars

Constructed == HasReturned(incident)

IsTimeoutEscalation(log) ==
  log.type = "escalate_log_entry" /\ log.channel_type = "timeout"

\* C1: the reconstructed Incident has timed_out = True if and only if its
\* log holds, at any position, an escalate entry of channel type timeout.
C1_TimedOutIffTimeoutAnywhere ==
  Constructed =>
    (incident.value.timed_out <=>
       \E i \in 1..Len(incident.value.raw_logs) : IsTimeoutEscalation(incident.value.raw_logs[i]))

\* C2: for a log of timestamped entries that holds a resolve entry,
\* resolution_type is AUTO if and only if no acknowledge entry precedes the
\* first resolve entry and that entry's summary is the auto-resolution
\* marker, and MANUAL otherwise (never unset).
C2_ResolutionTypeOfFirstResolve ==
  Constructed =>
    LET logs == incident.value.raw_logs
        Resolves == {i \in 1..Len(logs) : logs[i].type = "resolve_log_entry"}
    IN  ((\A i \in 1..Len(logs) : logs[i].created_at # NoTime) /\ Resolves # {}) =>
          LET first == CHOOSE i \in Resolves : \A j \in Resolves : i <= j
              acked == \E k \in 1..(first - 1) : logs[k].type = "acknowledge_log_entry"
          IN  incident.value.resolution_type =
                IF ~acked /\ logs[first].summary = AUTO_RESOLVE_SUMMARY
                THEN "AUTO" ELSE "MANUAL"

(***************************************************************************)
(* Coverage statistics: one call of policy_statistics over the window      *)
(* [WindowStart, WindowEnd].                                               *)
(***************************************************************************)
WindowEnd == MaxTime - 1

\* 'since': start_time, 'until': end_time: the API lists the incidents
\* created inside the window.  Each is open (no log entry yet) or was
\* resolved at some instant.
WindowIncidents ==
  {[incident_data |-> RawIncident("PD1", c, "low"), log_entries |-> logs] :
     c \in WindowStart..WindowEnd,
     logs \in {<<>>} \cup
              {<<LogEntry("resolve_log_entry", t, AUTO_RESOLVE_SUMMARY, None)>> :
                 t \in 0..MaxTime}}

InitStats ==
  /\ api_incidents \in SeqsUpTo(WindowIncidents, MaxIncidents)
  /\ pd_stats = Pending
  /\ StatusIdle
  /\ IncidentIdle
  /\ AnalysisIdle
  /\ VulnIdle
  /\ CacheIdle

\* client.policy_statistics(escalation_policy_id, start, end)
CallPolicyStatistics ==
  /\ pd_stats = Pending
  /\ pd_stats' = PolicyStatistics(api_incidents, WindowStart, WindowEnd)
  /\ UNCHANGED <<api_incidents, statusVars, incidentVars, analysisVars, vulnVars, cacheVars>>

NextStats == CallPolicyStatistics

SpecStats == InitStats /\ [][NextStats]_vars

\* The incidents of the call, as get_incidents_for_policy built them.
StatsIncidents == GetIncidentsForPolicy(api_incidents).value

\* The unit intervals [t, t+1] of the window during which inc is active: from
\* its creation to its resolution, or to the window's end if unresolved.
ActiveSlots(inc) ==
  {t \in WindowStart..(WindowEnd - 1) :
     inc.created <= t /\ t < ResolvedOrEnd(inc, WindowEnd)}

\* The time inside the window with no active incident.
UncoveredTime(incidents) ==
  Cardinality((WindowStart..(WindowEnd - 1))
              \ UNION {ActiveSlots(incidents[i]) : i \in 1..Len(incidents)})

ResolvedAfterCreated(incidents) ==
  \A i \in 1..Len(incidents) :
    /\ incidents[i].created \in WindowStart..WindowEnd
    /\ incidents[i].resolved_time # NoTime =>
         incidents[i].resolved_time >= incidents[i].created

\* C3: for a non-empty list of incidents created inside the window and not
\* resolved before their creation, total_response_time is the length of the
\* window minus the length of the part of it covered by the union of the
\* intervals [created, resolved_time] (an unresolved incident covering
\* [created, end]): the time inside the window with no active incident.
C3_GapTimeIsUncoveredTime ==
  (HasReturned(pd_stats) /\ api_incidents # <<>>
     /\ ResolvedAfterCreated(StatsIncidents)) =>
    pd_stats.value.total_response_time = UncoveredTime(StatsIncidents)

\* C3 witness: two incidents whose intervals overlap, the first resolved
\* after the second was created and before the window's end, leave a gap.
C3_Witness ==
  /\ HasReturned(pd_stats)
  /\ Len(api_incidents) >= 2
  /\ ResolvedAfterCreated(StatsIncidents)
  /\ \E i, j \in 1..Len(api_incidents) :
       /\ StatsIncidents[i].created < StatsIncidents[j].created
       /\ StatsIncidents[i].resolved_time # NoTime
       /\ StatsIncidents[j].resolved_time # NoTime
       /\ StatsIncidents[j].created < StatsIncidents[i].resolved_time
       /\ StatsIncidents[j].resolved_time < StatsIncidents[i].resolved_time
  /\ pd_stats.value.total_response_time > 0

(***************************************************************************)
(* Execution analysis: one call of analyze_epics, an iteration of its loop *)
(* at a time.                                                              *)
(***************************************************************************)
\* for epic in epics: ... (one iteration).  An exception ends the call and
\* its locals with it.
AnalyzeEpic ==
  /\ report = Pending
  /\ an_index \in 1..Len(epics)
  /\ \E after \in {AnalyzeEpicBody(epics[an_index], today,
                                    jira_stories[epics[an_index].key],
                                    ai_responses[epics[an_index].key],
                                    Frame(problems, all_stories, evaluations))} :
         /\ jira_calls' = jira_calls \o after.fetched
         /\ ai_calls' = ai_calls \o after.prompts
         /\ call_log' = call_log \o after.calls
         /\ IF HasReturned(after.outcome)
            THEN /\ problems' = after.outcome.value.problems
                 /\ all_stories' = after.outcome.value.all_stories
                 /\ evaluations' = after.outcome.value.evaluations
                 /\ an_index' = an_index + 1
                 /\ UNCHANGED report
            ELSE /\ report' = after.outcome
                 /\ problems' = <<>>
                 /\ all_stories' = <<>>
                 /\ evaluations' = <<>>
                 /\ UNCHANGED an_index
  /\ UNCHANGED <<analysisInputs, exec_stats, statusVars, incidentVars, statsVars, vulnVars, cacheVars>>

\* return ExecutionReport(epics=epics, problems=problems, stories=all_stories,
\*                        evaluations=evaluations)
ReturnReport ==
  /\ report = Pending
  /\ an_index = Len(epics) + 1
  /\ report' = Returned(ExecutionReport(epics, problems, all_stories, evaluations))
  /\ UNCHANGED <<analysisInputs, an_index, problems, all_stories, evaluations,
                 callVars, exec_stats, statusVars, incidentVars, statsVars, vulnVars, cacheVars>>

NextAnalysis == AnalyzeEpic \/ ReturnReport

\* The locals of analyze_epics before its loop.
AnalysisStarts ==
  /\ an_index = 1 /\ problems = <<>> /\ all_stories = <<>> /\ evaluations = <<>>
  /\ report = Pending /\ exec_stats = Pending
  /\ jira_calls = <<>> /\ ai_calls = <<>> /\ call_log = <<>>

(***************************************************************************)
(* Inputs of the analysis.                                                 *)
(***************************************************************************)
Days == 0..MaxDay

Dates == {NoTime} \cup Days

\* Status names as the tracker displays them: one per canonical status, and
\* one STATUS_MAP does not hold.
AnalysisStatuses ==
  {Title(K_to_do), Title(K_in_progress), Title(K_done), Title(K_duplicate),
   Title(U_triage)}

\* An oracle answer that parses, with this average.
GoodResponse(average) == AIResponse(TRUE, "json", EvaluationKeys, average)

\* SpecRules: analyze_epics over one epic of any status and dates, without
\* update; the tracker holds no story for it or one, of any status and dates
\* if the epic is in progress.
RuleStories(raw_status) ==
  IF GetStatus(raw_status) = "IN_PROGRESS"
  THEN {<<>>} \cup {<<Story(<<1, 1>>, st, due, start)>> :
                      st \in AnalysisStatuses, due \in Dates, start \in Dates}
  ELSE {<<>>, <<Story(<<1, 1>>, Title(K_in_progress), NoTime, NoTime)>>}

InitRules ==
  /\ today \in Days
  /\ \E st \in AnalysisStatuses, due \in Dates, start \in Dates :
       /\ epics = <<Epic(<<1>>, st, due, start, NoEpicUpdate)>>
       /\ jira_stories \in [{<<1>>} -> RuleStories(st)]
  /\ ai_responses = [k \in {<<1>>} |-> GoodResponse(LOW_SCORE)]
  /\ AnalysisStarts
  /\ StatusIdle
  /\ IncidentIdle
  /\ StatsIdle
  /\ VulnIdle
  /\ CacheIdle

SpecRules == InitRules /\ [][NextAnalysis]_vars

\* SpecAnalysis: analyze_epics over up to MaxEpics epics without dates, on
\* the day AnalysisToday.
AnalysisToday == FRESH_DAYS + MaxDay

\* An update written age days before AnalysisToday, at the tick of that day.
UpdateOfAge(age, tick) ==
  EpicUpdate((AnalysisToday - age) * TicksPerDay + tick, "Milestone 2 shipped", "On Track")

LastTick == TicksPerDay - 1

FreshUpdates ==
  {UpdateOfAge(0, 0), UpdateOfAge(FRESH_DAYS - 1, 0), UpdateOfAge(FRESH_DAYS - 1, LastTick)}

StaleUpdates ==
  {NoEpicUpdate, EpicUpdate(NoTime, "Milestone 2 shipped", "On Track"),
   UpdateOfAge(FRESH_DAYS, 0), UpdateOfAge(FRESH_DAYS, LastTick)}

AnalysisResponses ==
  {GoodResponse(LOW_SCORE), GoodResponse(LOW_SCORE + 10),
   AIResponse(FALSE, "", {}, 0),
   AIResponse(TRUE, "prose", {}, 0),
   AIResponse(TRUE, "broken_json", {}, 0),
   AIResponse(TRUE, "json", CriteriaKeys, 0),
   AIResponse(TRUE, "json", EvaluationKeys \ {"Delivery Confidence"}, LOW_SCORE + 10)}

\* What the tracker may hold under an epic: no story or one.
AnalysisStoryCounts == {0, 1}

\* One epic with what the tracker and the oracle hold for it.  The oracle's
\* answers vary for the epics whose update is recent, the updates and
\* stories for the epics in progress.
AnalysisCase(raw_status, update, story_count, response) ==
  [status |-> raw_status, update |-> update, story_count |-> story_count,
   response |-> response]

AnalysisCases ==
  {AnalysisCase(st, u, 0, GoodResponse(LOW_SCORE)) :
     st \in {Title(K_to_do), Title(K_done)}, u \in {NoEpicUpdate, UpdateOfAge(0, 0)}}
  \cup {AnalysisCase(Title(K_in_progress), u, n, GoodResponse(LOW_SCORE)) :
          u \in StaleUpdates, n \in AnalysisStoryCounts}
  \cup {AnalysisCase(Title(K_in_progress), u, n, r) :
          u \in FreshUpdates, n \in AnalysisStoryCounts, r \in AnalysisResponses}

CaseStories(e, story_count) ==
  [j \in 1..story_count |-> Story(<<e, j>>, Title(K_in_progress), NoTime, NoTime)]

InitAnalysis ==
  /\ today = AnalysisToday
  /\ \E cases \in SeqsUpTo(AnalysisCases, MaxEpics) :
       /\ epics = [e \in 1..Len(cases) |->
                     Epic(<<e>>, cases[e].status, NoTime, NoTime, cases[e].update)]
       /\ jira_stories = [k \in {<<e>> : e \in 1..Len(cases)} |->
                            CaseStories(k[1], cases[k[1]].story_count)]
       /\ ai_responses = [k \in {<<e>> : e \in 1..Len(cases)} |-> cases[k[1]].response]
  /\ AnalysisStarts
  /\ StatusIdle
  /\ IncidentIdle
  /\ StatsIdle
  /\ VulnIdle
  /\ CacheIdle

SpecAnalysis == InitAnalysis /\ [][NextAnalysis]_vars

(***************************************************************************)
(* Properties of the analysis.                                             *)
(***************************************************************************)
\* The issues a completed analysis applied _analyze_status to: every epic,
\* and the stories fetched for the epics in progress.
AnalysedIssues ==
  {epics[e] : e \in 1..Len(epics)}
  \cup {report.value.stories[j] : j \in 1..Len(report.value.stories)}

\* Positions in the report's problem list of the problems of this issue and kind.
ProblemPositions(issue, kind) ==
  {n \in 1..Len(report.value.problems) :
     /\ report.value.problems[n].issue = issue.key
     /\ report.value.problems[n].problem_type = kind}

Emitted(issue, kind) == ProblemPositions(issue, kind) # {}

\* The kinds of the problems the report holds for this issue.
KindsOf(issue) == {kind \in ProblemType : Emitted(issue, kind)}

\* The rows of the per-issue rule table.
RuleKinds ==
  {"MISSING_DUE_DATE", "MISSING_START_DATE", "IN_PROGRESS_BEFORE_START_DATE",
   "PAST_DUE_DATE"}

CanonicalStatus(issue) == STATUS_MAP[Lower(issue.status)]

MissingDueDateRow(issue) ==
  CanonicalStatus(issue) \in {"TODO", "IN_PROGRESS"} /\ issue.due_date = NoTime

MissingStartDateRow(issue) ==
  CanonicalStatus(issue) = "TODO" /\ issue.start_date = NoTime

BeforeStartDateRow(issue) ==
  \/ CanonicalStatus(issue) = "TODO" /\ issue.start_date # NoTime
       /\ issue.start_date < today
  \/ CanonicalStatus(issue) = "IN_PROGRESS" /\ issue.start_date # NoTime
       /\ issue.start_date > today

PastDueDateRow(issue) ==
  /\ CanonicalStatus(issue) \notin {"DONE", "INVALID"}
  /\ issue.due_date # NoTime
  /\ issue.due_date < today

\* The rows of the table whose condition holds for the issue.
RowsHolding(issue) ==
  {kind \in RuleKinds :
     \/ kind = "MISSING_DUE_DATE" /\ MissingDueDateRow(issue)
     \/ kind = "MISSING_START_DATE" /\ MissingStartDateRow(issue)
     \/ kind = "IN_PROGRESS_BEFORE_START_DATE" /\ BeforeStartDateRow(issue)
     \/ kind = "PAST_DUE_DATE" /\ PastDueDateRow(issue)}

\* C4: for every analysed epic or story and every today, MISSING_DUE_DATE is
\* emitted iff the status is TODO or IN_PROGRESS and the due date is absent,
\* MISSING_START_DATE iff the status is TODO and the start date is absent,
\* and the rule kinds emitted are exactly the table rows that hold; a TODO
\* epic without dates gets exactly {MISSING_DUE_DATE, MISSING_START_DATE}
\* from the whole analysis.
C4_MissingDateRules ==
  HasReturned(report) =>
    /\ \A issue \in AnalysedIssues :
         /\ Emitted(issue, "MISSING_DUE_DATE") <=> MissingDueDateRow(issue)
         /\ Emitted(issue, "MISSING_START_DATE") <=> MissingStartDateRow(issue)
         /\ KindsOf(issue) \cap RuleKinds = RowsHolding(issue)
    /\ \A e \in 1..Len(epics) :
         (CanonicalStatus(epics[e]) = "TODO" /\ epics[e].due_date = NoTime
            /\ epics[e].start_date = NoTime) =>
           /\ KindsOf(epics[e]) = {"MISSING_DUE_DATE", "MISSING_START_DATE"}
           /\ Len(epics) = 1 =>
                {report.value.problems[n].problem_type :
                   n \in 1..Len(report.value.problems)}
                  = {"MISSING_DUE_DATE", "MISSING_START_DATE"}

\* C4 witness: the analysis of a TODO epic without dates has returned, and
\* the tracker holds a story under it.
C4_Witness ==
  /\ HasReturned(report)
  /\ Len(epics) = 1
  /\ CanonicalStatus(epics[1]) = "TODO"
  /\ epics[1].due_date = NoTime /\ epics[1].start_date = NoTime
  /\ jira_stories[<<1>>] # <<>>
  /\ Len(report.value.problems) = 2

\* C5: PAST_DUE_DATE is emitted for an issue iff its status is neither DONE
\* nor INVALID and its due date is present and strictly before today; a due
\* date of today does not fire, and a DONE issue never gets it.
C5_PastDueDateRule ==
  HasReturned(report) =>
    \A issue \in AnalysedIssues :
      /\ Emitted(issue, "PAST_DUE_DATE") <=> PastDueDateRow(issue)
      /\ issue.due_date = today => ~Emitted(issue, "PAST_DUE_DATE")
      /\ CanonicalStatus(issue) = "DONE" => ~Emitted(issue, "PAST_DUE_DATE")

\* C5 witness: an in-progress epic due yesterday, with a story due today.
C5_Witness ==
  /\ HasReturned(report)
  /\ CanonicalStatus(epics[1]) = "IN_PROGRESS"
  /\ epics[1].due_date # NoTime /\ epics[1].due_date + 1 = today
  /\ Emitted(epics[1], "PAST_DUE_DATE")
  /\ \E story \in AnalysedIssues :
       /\ story.type = "Story" /\ story.due_date = today
       /\ CanonicalStatus(story) = "TODO"
       /\ ~Emitted(story, "PAST_DUE_DATE")

\* C6: IN_PROGRESS_BEFORE_START_DATE is emitted for an issue iff it is TODO
\* with a start date before today or IN_PROGRESS with a start date after
\* today; at most once per issue, never for a start date of today, never
\* for a DONE or INVALID issue.
C6_BeforeStartDateRule ==
  HasReturned(report) =>
    \A issue \in AnalysedIssues :
      /\ Emitted(issue, "IN_PROGRESS_BEFORE_START_DATE") <=> BeforeStartDateRow(issue)
      /\ Cardinality(ProblemPositions(issue, "IN_PROGRESS_BEFORE_START_DATE")) <= 1
      /\ (issue.start_date = today \/ CanonicalStatus(issue) \in {"DONE", "INVALID"})
           => ~Emitted(issue, "IN_PROGRESS_BEFORE_START_DATE")

\* C6 witness: an in-progress epic starting tomorrow (fires) with a TODO
\* story that started yesterday (fires).
C6_Witness ==
  /\ HasReturned(report)
  /\ CanonicalStatus(epics[1]) = "IN_PROGRESS"
  /\ epics[1].start_date = today + 1
  /\ Emitted(epics[1], "IN_PROGRESS_BEFORE_START_DATE")
  /\ \E story \in AnalysedIssues :
       /\ story.type = "Story" /\ CanonicalStatus(story) = "TODO"
       /\ story.start_date # NoTime /\ story.start_date + 1 = today
       /\ Emitted(story, "IN_PROGRESS_BEFORE_START_DATE")

InProgressEpics == {e \in 1..Len(epics) : CanonicalStatus(epics[e]) = "IN_PROGRESS"}

\* Whole days from the update's date to today.
UpdateAgeDays(epic) == today - (epic.last_epic_update.updated \div TicksPerDay)

\* The epic's update is present, timestamped and less than 7 days old.
FreshUpdate(epic) ==
  /\ epic.last_epic_update # NoEpicUpdate
  /\ epic.last_epic_update.updated # NoTime
  /\ UpdateAgeDays(epic) < 7

\* C7: for every in-progress epic, MISSING_EPIC_UPDATE is emitted iff the
\* epic has no update, or the update has no timestamp, or the update's date
\* is 7 or more days before today; 6 days is fresh, 7 days is not.
C7_MissingEpicUpdateRule ==
  HasReturned(report) =>
    \A e \in InProgressEpics :
      Emitted(epics[e], "MISSING_EPIC_UPDATE") <=>
        \/ epics[e].last_epic_update = NoEpicUpdate
        \/ epics[e].last_epic_update.updated = NoTime
        \/ UpdateAgeDays(epics[e]) >= 7

\* C7 witness: one in-progress epic updated late on the day 6 days ago (no
\* problem) and one updated late on the day 7 days ago (problem).
C7_Witness ==
  /\ HasReturned(report)
  /\ \E e, f \in InProgressEpics :
       /\ epics[e].last_epic_update = UpdateOfAge(6, LastTick)
       /\ ~Emitted(epics[e], "MISSING_EPIC_UPDATE")
       /\ epics[f].last_epic_update = UpdateOfAge(7, LastTick)
       /\ Emitted(epics[f], "MISSING_EPIC_UPDATE")

\* C8: for every in-progress epic with a fresh update, LOW_EPIC_UPDATE_SCORE
\* is emitted iff the average the oracle returned is <= 3.5 (3.5 fires, 3.6
\* does not), and it is never emitted for an epic without a recorded
\* evaluation.
C8_LowScoreRule ==
  HasReturned(report) =>
    /\ \A e \in InProgressEpics :
         FreshUpdate(epics[e]) =>
           (Emitted(epics[e], "LOW_EPIC_UPDATE_SCORE") <=>
              ai_responses[epics[e].key].average <= 350)
    /\ \A e \in 1..Len(epics) :
         Emitted(epics[e], "LOW_EPIC_UPDATE_SCORE") =>
           epics[e].key \in DOMAIN report.value.evaluations

\* C8 witness: two evaluated epics, one with average 3.5 (problem) and one
\* with average 3.6 (no problem).
C8_Witness ==
  /\ HasReturned(report)
  /\ \E e, f \in InProgressEpics :
       /\ FreshUpdate(epics[e]) /\ FreshUpdate(epics[f])
       /\ ai_responses[epics[e].key].average = 350
       /\ Emitted(epics[e], "LOW_EPIC_UPDATE_SCORE")
       /\ ai_responses[epics[f].key].average = 360
       /\ ~Emitted(epics[f], "LOW_EPIC_UPDATE_SCORE")

\* The oracle answered, and its answer is no JSON or lacks one of the five
\* criteria or the average.
Malformed(response) ==
  /\ response.api_ok
  /\ response.body # "json" \/ ~(EvaluationKeys \subseteq response.keys)

\* The epics whose update analyze_epics hands to the oracle.
ScoredEpics ==
  {e \in InProgressEpics :
     /\ FreshUpdate(epics[e])
     /\ \A j \in 1..Len(jira_stories[epics[e].key]) :
          Lower(jira_stories[epics[e].key][j].status) \in KnownLabels}

\* C10: if the oracle's answer for an epic is malformed, analyze_epics fails
\* as a whole: the loop never passes that epic, its iteration ends the call
\* with an exception, and no report (so no partial report of the epics
\* before it) is ever returned.
C10_MalformedScoreAbortsAnalysis ==
  \A e \in ScoredEpics :
    Malformed(ai_responses[epics[e].key]) =>
      /\ an_index <= e
      /\ ~HasReturned(report)
      /\ (an_index = e /\ report # Pending) =>
           (report.raised \in {"Exception", ValueError} /\ problems = <<>>)

\* C10 witness: the first epic was analysed, the second epic's answer lacks
\* a key, and the call has ended with the parse failure.
C10_Witness ==
  /\ Len(epics) = 2
  /\ an_index = 2
  /\ 2 \in ScoredEpics
  /\ ai_responses[<<2>>].body = "json"
  /\ Malformed(ai_responses[<<2>>])
  /\ report = Raised("Exception")

(***************************************************************************)
(* SpecStories: analyze_epics over up to MaxEpics epics without dates, on  *)
(* the day AnalysisToday; the tracker holds up to MaxStories stories under *)
(* each epic, and the oracle's answers parse.                              *)
(***************************************************************************)
\* The stories of the tracker: one in progress without dates, one still to
\* do whose due date has passed.
OpenStory == [status |-> Title(K_in_progress), due_date |-> NoTime]

LateStory == [status |-> Title(K_to_do), due_date |-> 0]

\* What get_stories_by_epic may return for an epic: up to MaxStories
\* stories, of the two kinds in turn, starting with either.
StoryLists ==
  {[j \in 1..n |-> IF (j + k) % 2 = 0 THEN OpenStory ELSE LateStory] :
     n \in 0..MaxStories, k \in 0..1}

\* Updates the oracle is asked about, with its answers.
OnTrackUpdate == EpicUpdate(AnalysisToday * TicksPerDay, "Milestone 2 shipped", "On Track")

AtRiskUpdate ==
  EpicUpdate((AnalysisToday - FRESH_DAYS + 1) * TicksPerDay, "Vendor contract delayed",
             "At Risk")

StaleUpdate == UpdateOfAge(FRESH_DAYS, LastTick)

\* A fresh update of an epic that is not in progress.
ClosedUpdate == EpicUpdate(AnalysisToday * TicksPerDay, "Rollout finished", "Off Track")

\* One epic with what the tracker and the oracle hold for it.
HierarchyCase(raw_status, update, kinds, response) ==
  [status |-> raw_status, update |-> update, kinds |-> kinds, response |-> response]

HierarchyCases ==
  {HierarchyCase(Title(K_in_progress), u.update, kinds, u.response) :
     u \in {[update |-> StaleUpdate, response |-> GoodResponse(LOW_SCORE)],
            [update |-> OnTrackUpdate, response |-> GoodResponse(LOW_SCORE)],
            [update |-> AtRiskUpdate, response |-> GoodResponse(LOW_SCORE + 10)]},
     kinds \in StoryLists}
  \cup {HierarchyCase(st, u, <<OpenStory>>,
                      GoodResponse(LOW_SCORE)) :
          st \in {Title(K_to_do), Title(K_done), Title(K_duplicate)},
          u \in {NoEpicUpdate, ClosedUpdate}}

HierarchyStories(e, kinds) ==
  [j \in 1..Len(kinds) |-> Story(<<e, j>>, kinds[j].status, kinds[j].due_date, NoTime)]

InitStories ==
  /\ today = AnalysisToday
  /\ \E cases \in SeqsUpTo(HierarchyCases, MaxEpics) :
       /\ epics = [e \in 1..Len(cases) |->
                     Epic(<<e>>, cases[e].status, NoTime, NoTime, cases[e].update)]
       /\ jira_stories = [k \in {<<e>> : e \in 1..Len(cases)} |->
                            HierarchyStories(k[1], cases[k[1]].kinds)]
       /\ ai_responses = [k \in {<<e>> : e \in 1..Len(cases)} |-> cases[k[1]].response]
  /\ AnalysisStarts
  /\ StatusIdle
  /\ IncidentIdle
  /\ StatsIdle
  /\ VulnIdle
  /\ CacheIdle

SpecStories == InitStories /\ [][NextAnalysis]_vars

\* Positions in the report's problem list of the problems about the stories
\* of epic e.
StoryProblemPositions(e) ==
  {n \in 1..Len(report.value.problems) :
     /\ report.value.problems[n].issue_type = "Story"
     /\ report.value.problems[n].issue[1] = e}

\* The stories the tracker holds under epic e.
TrackerStories(e) == jira_stories[epics[e].key]

\* C11: for every in-progress epic, if the story fetch returns no stories
\* then exactly one IN_PROGRESS_EPIC_WITHOUT_STORIES problem about that epic
\* is emitted and no story problem; otherwise none is emitted, every fetched
\* story is in the report and gets exactly the rule problems of the
\* per-issue table, each once.
C11_StoriesFetchedOrStructuralProblem ==
  HasReturned(report) =>
    \A e \in InProgressEpics :
      IF TrackerStories(e) = <<>>
      THEN /\ Cardinality(ProblemPositions(epics[e], "IN_PROGRESS_EPIC_WITHOUT_STORIES")) = 1
           /\ StoryProblemPositions(e) = {}
      ELSE /\ ~Emitted(epics[e], "IN_PROGRESS_EPIC_WITHOUT_STORIES")
           /\ \A j \in 1..Len(TrackerStories(e)) :
                LET story == TrackerStories(e)[j]
                IN  /\ \E n \in 1..Len(report.value.stories) :
                         report.value.stories[n] = story
                    /\ KindsOf(story) = RowsHolding(story)
                    /\ \A kind \in RuleKinds :
                         Cardinality(ProblemPositions(story, kind)) <= 1

\* C11 witness: one in-progress epic without stories (structural problem)
\* and one with two stories, the second of which has two problems.
C11_Witness ==
  /\ HasReturned(report)
  /\ \E e, f \in InProgressEpics :
       /\ TrackerStories(e) = <<>>
       /\ Emitted(epics[e], "IN_PROGRESS_EPIC_WITHOUT_STORIES")
       /\ Len(TrackerStories(f)) = 2
       /\ KindsOf(TrackerStories(f)[2]) = {"MISSING_START_DATE", "PAST_DUE_DATE"}

\* The in-progress epics whose update is fresh, and the place of one of
\* them among these in the order of the epics.
FreshInProgressEpics == {e \in InProgressEpics : FreshUpdate(epics[e])}

FreshRank(e) == Cardinality({f \in FreshInProgressEpics : f <= e})

\* C12: after a successful analysis the oracle has been asked once for every
\* in-progress epic with a fresh update, in the order of the epics, with
\* that update's status and content; the evaluation it returned is recorded
\* under that epic's key; the keys of evaluations are exactly the keys of
\* these epics; and no epic has both an evaluation and a MISSING_EPIC_UPDATE
\* problem.
C12_FreshUpdatesAreScoredAndRecorded ==
  HasReturned(report) =>
    /\ Len(ai_calls) = Cardinality(FreshInProgressEpics)
    /\ \A e \in FreshInProgressEpics :
         /\ ai_calls[FreshRank(e)].status = epics[e].last_epic_update.status
         /\ ai_calls[FreshRank(e)].update = epics[e].last_epic_update.content
         /\ report.value.evaluations[epics[e].key].epic_key = epics[e].key
         /\ report.value.evaluations[epics[e].key].average_score
              = ai_responses[epics[e].key].average
    /\ DOMAIN report.value.evaluations = {epics[e].key : e \in FreshInProgressEpics}
    /\ \A e \in 1..Len(epics) :
         ~(/\ epics[e].key \in DOMAIN report.value.evaluations
           /\ Emitted(epics[e], "MISSING_EPIC_UPDATE"))

\* C12 witness: two in-progress epics with different fresh updates were
\* scored, each with its own status and content and its own average.
C12_Witness ==
  /\ HasReturned(report)
  /\ FreshInProgressEpics = {1, 2}
  /\ ai_calls = <<[status |-> "At Risk", update |-> "Vendor contract delayed"],
                  [status |-> "On Track", update |-> "Milestone 2 shipped"]>>
  /\ report.value.evaluations[<<1>>].average_score = LOW_SCORE + 10
  /\ report.value.evaluations[<<2>>].average_score = LOW_SCORE

\* The epics analyze_epics passes over after their own rule problems.
NotInProgressEpics ==
  {e \in 1..Len(epics) : CanonicalStatus(epics[e]) \in {"TODO", "DONE", "INVALID"}}

\* C13: for an epic whose canonical status is TODO, DONE or INVALID the
\* analysis never fetches its stories and never sends its update to the
\* oracle, whatever the update looks like, and the report holds none of
\* IN_PROGRESS_EPIC_WITHOUT_STORIES, MISSING_EPIC_UPDATE,
\* LOW_EPIC_UPDATE_SCORE for it, no evaluation of it and none of the
\* stories the tracker holds under it.
C13_StructuralRulesOnlyInProgress ==
  \A e \in NotInProgressEpics :
    /\ \A n \in 1..Len(jira_calls) : jira_calls[n] # epics[e].key
    /\ epics[e].last_epic_update # NoEpicUpdate =>
         \A n \in 1..Len(ai_calls) :
           ai_calls[n].update # epics[e].last_epic_update.content
    /\ Len(ai_calls) <= Cardinality({f \in FreshInProgressEpics : f < an_index})
    /\ HasReturned(report) =>
         /\ KindsOf(epics[e]) \subseteq RuleKinds
         /\ epics[e].key \notin DOMAIN report.value.evaluations
         /\ StoryProblemPositions(e) = {}
         /\ \A n \in 1..Len(report.value.stories) : report.value.stories[n].key[1] # e

\* C13 witness: a DONE epic with a fresh update and a story in the tracker
\* was passed over, and the in-progress epic after it was fetched and scored.
C13_Witness ==
  /\ HasReturned(report)
  /\ Len(epics) = 2
  /\ CanonicalStatus(epics[1]) = "DONE"
  /\ FreshUpdate(epics[1])
  /\ TrackerStories(1) # <<>>
  /\ jira_calls = <<epics[2].key>>
  /\ Len(ai_calls) = 1

\* The epic a problem of the report belongs to, the part of that epic's
\* analysis it comes from (1 the epic's own rule problems, 2 the missing
\* stories, 3 the stories' problems, 4 the update), and for a story's
\* problem the story's place in what the fetch returned.
EpicOfProblem(p) == p.issue[1]

PartOfProblem(p) ==
  IF p.issue_type = "Story" THEN 3
  ELSE IF p.problem_type \in RuleKinds THEN 1
  ELSE IF p.problem_type = "IN_PROGRESS_EPIC_WITHOUT_STORIES" THEN 2
  ELSE 4

FetchPlace(p) ==
  IF p.issue_type # "Story" THEN 0
  ELSE CHOOSE j \in 1..Len(TrackerStories(EpicOfProblem(p))) :
         TrackerStories(EpicOfProblem(p))[j].key = p.issue

\* C14: in the problem list of the report the problems of one epic are
\* contiguous (problems of different epics are never interleaved), and
\* among them come first the epic's own rule problems, then
\* IN_PROGRESS_EPIC_WITHOUT_STORIES, then the stories' problems in the order
\* the fetch returned the stories, then MISSING_EPIC_UPDATE or
\* LOW_EPIC_UPDATE_SCORE.
C14_ProblemOrder ==
  HasReturned(report) =>
    LET ps == report.value.problems
    IN  \A m, n \in 1..Len(ps) :
          m < n =>
            /\ EpicOfProblem(ps[m]) = EpicOfProblem(ps[n]) =>
                 /\ \A l \in m..n : EpicOfProblem(ps[l]) = EpicOfProblem(ps[m])
                 /\ PartOfProblem(ps[m]) <= PartOfProblem(ps[n])
                 /\ (PartOfProblem(ps[m]) = 3 /\ PartOfProblem(ps[n]) = 3) =>
                      FetchPlace(ps[m]) <= FetchPlace(ps[n])
            /\ PartOfProblem(ps[m]) \in {2, 4} =>
                 ~(EpicOfProblem(ps[m]) = EpicOfProblem(ps[n])
                     /\ PartOfProblem(ps[m]) = PartOfProblem(ps[n]))

\* C14 witness: the first epic has a rule problem of its own, two stories
\* with problems and a low score, the second epic has no stories and a
\* stale update; the report lists all of them.
C14_Witness ==
  /\ HasReturned(report)
  /\ Len(epics) = 2
  /\ Len(TrackerStories(1)) = 2
  /\ TrackerStories(2) = <<>>
  /\ InProgressEpics = {1, 2}
  /\ Emitted(epics[1], "LOW_EPIC_UPDATE_SCORE")
  /\ Emitted(epics[2], "MISSING_EPIC_UPDATE")
  /\ Len(report.value.problems) = 8

(***************************************************************************)
(* SpecCounts: one call of policy_statistics over incidents of both        *)
(* urgencies, created at the window's start, with the logs of the usual    *)
(* lifecycles.                                                             *)
(***************************************************************************)
\* Logs: nothing yet; acknowledged after one or two instants; resolved by
\* the API or by hand; escalated by timeout; acknowledged and then resolved.
CountLogs ==
  {<<>>,
   <<LogEntry("acknowledge_log_entry", WindowStart + 1, "Acknowledged by user", None)>>,
   <<LogEntry("acknowledge_log_entry", WindowStart + 2, "Acknowledged by user", None)>>,
   <<LogEntry("resolve_log_entry", WindowStart + 1, AUTO_RESOLVE_SUMMARY, None)>>,
   <<LogEntry("resolve_log_entry", WindowStart + 1, "Resolved by user", None)>>,
   <<LogEntry("escalate_log_entry", WindowStart + 1, "Escalated", "timeout")>>,
   <<LogEntry("resolve_log_entry", WindowStart + 2, "Resolved by user", None),
     LogEntry("acknowledge_log_entry", WindowStart, "Acknowledged by user", None)>>}

CountIncidents ==
  {[incident_data |-> RawIncident("PD1", WindowStart, urgency), log_entries |-> logs] :
     urgency \in {"high", "low"}, logs \in CountLogs}

InitCounts ==
  /\ api_incidents \in SeqsUpTo(CountIncidents, MaxIncidents)
  /\ pd_stats = Pending
  /\ StatusIdle
  /\ IncidentIdle
  /\ AnalysisIdle
  /\ VulnIdle
  /\ CacheIdle

SpecCounts == InitCounts /\ [][NextStats]_vars

\* The positions of the incidents of the call that satisfy a test.
AutoResolvedAt == {i \in 1..Len(StatsIncidents) : StatsIncidents[i].resolution_type = "AUTO"}

TimedOutAt == {i \in 1..Len(StatsIncidents) : StatsIncidents[i].timed_out}

HighUrgencyAt ==
  {i \in 1..Len(StatsIncidents) : api_incidents[i].incident_data.urgency = "high"}

\* C15: policy_statistics returns total_incidents = the number of incidents,
\* auto_resolved = the number whose resolution type is AUTO, timed_out = the
\* number whose timed_out is true, high_urgency_incidents = the number of
\* high urgency; so each of the three is at most total_incidents.
C15_Counts ==
  HasReturned(pd_stats) =>
    /\ pd_stats.value.total_incidents = Len(api_incidents)
    /\ pd_stats.value.auto_resolved = Cardinality(AutoResolvedAt)
    /\ pd_stats.value.timed_out = Cardinality(TimedOutAt)
    /\ pd_stats.value.high_urgency_incidents = Cardinality(HighUrgencyAt)
    /\ pd_stats.value.auto_resolved <= pd_stats.value.total_incidents
    /\ pd_stats.value.timed_out <= pd_stats.value.total_incidents
    /\ pd_stats.value.high_urgency_incidents <= pd_stats.value.total_incidents

\* C15 witness: three incidents, one resolved by the API, one timed out,
\* one of high urgency only.
C15_Witness ==
  /\ HasReturned(pd_stats)
  /\ pd_stats.value.total_incidents = 3
  /\ pd_stats.value.auto_resolved = 1
  /\ pd_stats.value.timed_out = 1
  /\ pd_stats.value.high_urgency_incidents = 1
  /\ AutoResolvedAt \cap HighUrgencyAt = {}
  /\ TimedOutAt \cap HighUrgencyAt = {}

\* The high-urgency incidents of the call that were acknowledged.
AckedHighAt ==
  {i \in HighUrgencyAt : StatsIncidents[i].first_acknowledge_time # NoTime}

\* The sum of first_acknowledge_time - created over the incidents at the
\* positions in S.
RECURSIVE AckDelaySum(_)
AckDelaySum(S) ==
  IF S = {} THEN 0
  ELSE LET i == CHOOSE j \in S : TRUE
       IN  (StatsIncidents[i].first_acknowledge_time - StatsIncidents[i].created)
           + AckDelaySum(S \ {i})

\* C16: mean_time_to_acknowledgement is the sum of (first_acknowledge_time -
\* created) over exactly the high-urgency incidents that have a
\* first_acknowledge_time, divided by their number, and None when there is
\* no such incident; acknowledgements of low-urgency incidents do not enter.
C16_MeanTimeToAck ==
  HasReturned(pd_stats) =>
    pd_stats.value.mean_time_to_acknowledgement =
      IF AckedHighAt = {} THEN [sum |-> NoTime, count |-> 0]
      ELSE [sum |-> AckDelaySum(AckedHighAt), count |-> Cardinality(AckedHighAt)]

\* C16 witness: two high-urgency incidents acknowledged after 1 and after 2
\* instants, and a low-urgency one acknowledged too: the mean is 3 / 2.
C16_Witness ==
  /\ HasReturned(pd_stats)
  /\ Len(api_incidents) = 3
  /\ \E i \in 1..3 :
       /\ api_incidents[i].incident_data.urgency = "low"
       /\ StatsIncidents[i].first_acknowledge_time # NoTime
  /\ pd_stats.value.mean_time_to_acknowledgement = [sum |-> 3, count |-> 2]

(***************************************************************************)
(* SpecVulns: one call of build_vulnerability_stats.                       *)
(***************************************************************************)
\* The vulnerabilities of the tracker: any status, with or without due date.
Vulnerabilities ==
  {[status |-> st, due_date |-> due] : st \in AnalysisStatuses, due \in Dates}

InitVulns ==
  /\ vuln_today \in Days
  /\ \E vs \in SeqsUpTo(Vulnerabilities, MaxVulns) :
       vulnerabilities = [i \in 1..Len(vs) |->
                            Vulnerability(<<i>>, vs[i].status, vs[i].due_date)]
  /\ vuln_stats = Pending
  /\ StatusIdle
  /\ IncidentIdle
  /\ StatsIdle
  /\ AnalysisIdle
  /\ CacheIdle

\* self.analyzer.build_vulnerability_stats(all_vulnerabilities)
CallBuildVulnerabilityStats ==
  /\ vuln_stats = Pending
  /\ vuln_stats' = BuildVulnerabilityStats(vulnerabilities, vuln_today)
  /\ UNCHANGED <<vulnerabilities, vuln_today, statusVars, incidentVars, statsVars,
                 analysisVars, cacheVars>>

NextVulns == CallBuildVulnerabilityStats

SpecVulns == InitVulns /\ [][NextVulns]_vars

\* The vulnerabilities whose canonical status is TODO or IN_PROGRESS, and
\* those whose due date is present and before today.
OpenAt ==
  {i \in 1..Len(vulnerabilities) :
     CanonicalStatus(vulnerabilities[i]) \in {"TODO", "IN_PROGRESS"}}

PastDueAt ==
  {i \in 1..Len(vulnerabilities) :
     vulnerabilities[i].due_date \in 0..(vuln_today - 1)}

\* C17: for a list of vulnerabilities of known status,
\* build_vulnerability_stats returns open_vulnerabilities = the number whose
\* canonical status is TODO or IN_PROGRESS and
\* vulnerabilities_past_due_date = the number whose due date is present and
\* strictly before today, whatever their status: a DONE or INVALID
\* vulnerability with a past due date is counted.
C17_VulnerabilityCounts ==
  HasReturned(vuln_stats) =>
    /\ vuln_stats.value.open_vulnerabilities = Cardinality(OpenAt)
    /\ vuln_stats.value.vulnerabilities_past_due_date = Cardinality(PastDueAt)
    /\ vuln_stats.value.vulnerabilities_past_due_date
         >= Cardinality({i \in PastDueAt :
                           CanonicalStatus(vulnerabilities[i]) \in {"DONE", "INVALID"}})

\* C17 witness: a DONE and an INVALID vulnerability, both past due, and none
\* open: the past-due count exceeds the open count.
C17_Witness ==
  /\ HasReturned(vuln_stats)
  /\ Len(vulnerabilities) = 2
  /\ CanonicalStatus(vulnerabilities[1]) = "DONE"
  /\ CanonicalStatus(vulnerabilities[2]) = "INVALID"
  /\ vuln_stats.value.open_vulnerabilities = 0
  /\ vuln_stats.value.vulnerabilities_past_due_date = 2

(***************************************************************************)
(* SpecDescriptor: one call of _get_incident_with_logs over descriptors    *)
(* with every field present, missing or, for created_at, unparsable.       *)
(***************************************************************************)
Descriptors ==
  {RawIncident(id, created_at, urgency) :
     id \in {"PD1", None},
     created_at \in {NoTime, BadTime} \cup (0..MaxLogTime),
     urgency \in {"high", "low", None}}

DescriptorLogs ==
  {LogEntry("acknowledge_log_entry", 0, "Acknowledged by user", None),
   LogEntry("resolve_log_entry", MaxLogTime, "Resolved by user", None)}

InitDescriptor ==
  /\ incident_data \in Descriptors
  /\ log_entries \in SeqsUpTo(DescriptorLogs, MaxLogs)
  /\ incident = Pending
  /\ StatusIdle
  /\ StatsIdle
  /\ AnalysisIdle
  /\ VulnIdle
  /\ CacheIdle

SpecDescriptor == InitDescriptor /\ [][NextIncident]_vars

\* C19: reconstructing an Incident from a descriptor whose created_at is
\* missing or does not parse fails with an error, and no Incident whose
\* created is undefined is ever produced.
C19_MissingOrUnparsableCreatedFails ==
  incident # Pending =>
    /\ incident_data.created_at \in {NoTime, BadTime} => ~HasReturned(incident)
    /\ HasReturned(incident) => incident.value.created # NoTime

(***************************************************************************)
(* SpecLookup: analyze_epics over epics and stories some of which have a   *)
(* status STATUS_MAP does not hold.                                        *)
(***************************************************************************)
TriageStory == [status |-> Title(U_triage), due_date |-> NoTime]

\* What get_stories_by_epic may return: up to MaxStories stories, in turn
\* one of a known and one of an unknown status, starting with either.
LookupStoryLists ==
  {[j \in 1..n |-> IF (j + k) % 2 = 0 THEN OpenStory ELSE TriageStory] :
     n \in 0..MaxStories, k \in 0..1}

LookupCases ==
  {HierarchyCase(Title(K_in_progress), u, kinds, GoodResponse(LOW_SCORE)) :
     u \in {StaleUpdate, OnTrackUpdate}, kinds \in LookupStoryLists}
  \cup {HierarchyCase(Title(K_to_do), NoEpicUpdate, <<TriageStory>>, GoodResponse(LOW_SCORE)),
        HierarchyCase(Title(U_triage), OnTrackUpdate, <<OpenStory>>, GoodResponse(LOW_SCORE))}

InitLookup ==
  /\ today = AnalysisToday
  /\ \E cases \in SeqsUpTo(LookupCases, MaxEpics) :
       /\ epics = [e \in 1..Len(cases) |->
                     Epic(<<e>>, cases[e].status, NoTime, NoTime, cases[e].update)]
       /\ jira_stories = [k \in {<<e>> : e \in 1..Len(cases)} |->
                            HierarchyStories(k[1], cases[k[1]].kinds)]
       /\ ai_responses = [k \in {<<e>> : e \in 1..Len(cases)} |-> cases[k[1]].response]
  /\ AnalysisStarts
  /\ StatusIdle
  /\ IncidentIdle
  /\ StatsIdle
  /\ VulnIdle
  /\ CacheIdle

SpecLookup == InitLookup /\ [][NextAnalysis]_vars

\* The issue's raw status is not in the status table, whatever its case.
UnknownStatus(issue) == Lower(issue.status) \notin KnownLabels

\* The epic's raw status is in the table, for IN_PROGRESS.
KnownInProgress(epic) ==
  ~UnknownStatus(epic) /\ STATUS_MAP[Lower(epic.status)] = "IN_PROGRESS"

\* The epics whose own status, or the status of a story the analysis
\* fetches for them, is not in the table.
UnrecognizedEpics ==
  {e \in 1..Len(epics) :
     \/ UnknownStatus(epics[e])
     \/ /\ KnownInProgress(epics[e])
        /\ \E j \in 1..Len(TrackerStories(e)) : UnknownStatus(TrackerStories(e)[j])}

\* C20: if an epic, or a story fetched for an in-progress epic, has a raw
\* status that is not in the status table, analyze_epics returns no report:
\* the loop never gets past that epic, the call ends with KeyError, keeps
\* no problems, and neither fetches the stories of a later epic nor sends
\* the update of that epic or a later one to the oracle.
C20_UnrecognizedStatusAbortsAnalysis ==
  \A e \in UnrecognizedEpics :
    /\ ~HasReturned(report)
    /\ an_index <= e
    /\ report # Pending => (report = Raised(KeyError) /\ problems = <<>>)
    /\ \A n \in 1..Len(jira_calls) : jira_calls[n][1] <= e
    /\ Len(ai_calls)
         <= Cardinality({f \in 1..(e - 1) :
                           KnownInProgress(epics[f]) /\ FreshUpdate(epics[f])})

\* C20 witness: a TODO epic with a story of unknown status in the tracker
\* was analysed (the story is never fetched); the in-progress epic after it
\* has a second story of unknown status, and the call ended with KeyError.
C20_Witness ==
  /\ Len(epics) = 2
  /\ UnrecognizedEpics = {2}
  /\ Len(TrackerStories(1)) = 1
  /\ Len(TrackerStories(2)) = 2
  /\ UnknownStatus(TrackerStories(1)[1])
  /\ ~UnknownStatus(TrackerStories(2)[1])
  /\ UnknownStatus(TrackerStories(2)[2])
  /\ an_index = 2
  /\ jira_calls = <<epics[2].key>>
  /\ report = Raised(KeyError)

\* An acknowledge entry that carries a timestamp.
IsTimedAck(log) == log.type = "acknowledge_log_entry" /\ log.created_at # NoTime

\* C21: for every log that holds an acknowledge entry with a timestamp,
\* first_acknowledge_time is the timestamp of the first such entry in list
\* order, whatever resolve or escalate entries come before it.
C21_FirstAckWhateverComesBefore ==
  Constructed =>
    LET logs == incident.value.raw_logs
        Acks == {i \in 1..Len(logs) : IsTimedAck(logs[i])}
    IN  Acks # {} =>
          incident.value.first_acknowledge_time
            = logs[CHOOSE i \in Acks : \A j \in Acks : i <= j].created_at

\* C22: over an empty incident list policy_statistics returns a
\* total_response_time of end - start (the whole window is uncovered), all
\* counts 0 and no mean time to acknowledgement.
C22_EmptyWindowIsAllGap ==
  (HasReturned(pd_stats) /\ api_incidents = <<>>) =>
    /\ pd_stats.value.total_response_time = WindowEnd - WindowStart
    /\ pd_stats.value.total_incidents = 0
    /\ pd_stats.value.auto_resolved = 0
    /\ pd_stats.value.timed_out = 0
    /\ pd_stats.value.high_urgency_incidents = 0
    /\ pd_stats.value.mean_time_to_acknowledgement = [sum |-> NoTime, count |-> 0]

\* The epic (its place in epics) a call of the trace was made for.
EpicOfCall(call) == call.epic[1]

\* C23: during one analyze_epics call the calls made for one epic are
\* contiguous and the epics are served in their order; for one epic the
\* story fetch comes before the oracle call and each is made at most once;
\* get_stories_by_epic is only called for in-progress epics and the oracle
\* only for in-progress epics with a fresh update; and once the call has
\* returned, every in-progress epic was fetched exactly once and every
\* in-progress epic with a fresh update was scored exactly once.
C23_CallsPerEpic ==
  /\ \A m, n \in 1..Len(call_log) :
       m < n =>
         /\ EpicOfCall(call_log[m]) <= EpicOfCall(call_log[n])
         /\ EpicOfCall(call_log[m]) = EpicOfCall(call_log[n]) =>
              (IsStoryFetch(call_log[m]) /\ IsOracleCall(call_log[n]))
  /\ \A n \in 1..Len(call_log) :
       /\ EpicOfCall(call_log[n]) \in InProgressEpics
       /\ EpicOfCall(call_log[n]) <= an_index
       /\ IsOracleCall(call_log[n]) => EpicOfCall(call_log[n]) \in FreshInProgressEpics
  /\ HasReturned(report) =>
       /\ \A e \in InProgressEpics :
            Cardinality({n \in 1..Len(call_log) :
                           IsStoryFetch(call_log[n]) /\ call_log[n].epic = epics[e].key}) = 1
       /\ \A e \in FreshInProgressEpics :
            Cardinality({n \in 1..Len(call_log) :
                           IsOracleCall(call_log[n]) /\ call_log[n].epic = epics[e].key}) = 1

\* C23 witness: two in-progress epics with fresh updates: fetch and oracle
\* call for the first, then fetch and oracle call for the second.
C23_Witness ==
  /\ HasReturned(report)
  /\ Len(call_log) = 4
  /\ IsStoryFetch(call_log[1]) /\ call_log[1].epic = <<1>>
  /\ IsOracleCall(call_log[2]) /\ call_log[2].epic = <<1>>
  /\ IsStoryFetch(call_log[3]) /\ call_log[3].epic = <<2>>
  /\ IsOracleCall(call_log[4]) /\ call_log[4].epic = <<2>>

(***************************************************************************)
(* SpecBulk: policy_statistics, and with it get_incidents_for_policy, over *)
(* windows in which some incident descriptors are malformed: the id is     *)
(* missing or created_at does not parse.                                   *)
(***************************************************************************)
BulkIncidents ==
  {[incident_data |-> RawIncident(id, c, "high"), log_entries |-> logs] :
     id \in {"PD1", None},
     c \in {BadTime} \cup (WindowStart..WindowEnd),
     logs \in {<<>>,
               <<LogEntry("resolve_log_entry", WindowEnd, "Resolved by user", None)>>}}

InitBulk ==
  /\ api_incidents \in SeqsUpTo(BulkIncidents, MaxIncidents)
  /\ pd_stats = Pending
  /\ StatusIdle
  /\ IncidentIdle
  /\ AnalysisIdle
  /\ VulnIdle
  /\ CacheIdle

SpecBulk == InitBulk /\ [][NextStats]_vars

\* A descriptor from which no Incident can be built.
MalformedDescriptor(descriptor) ==
  descriptor.id = None \/ descriptor.created_at = BadTime

\* The incidents listed for the window that are well formed.
WellFormedIncidents ==
  SelectSeq(api_incidents, LAMBDA a : ~MalformedDescriptor(a.incident_data))

\* C24: a malformed incident in the window (missing id, unparsable
\* created_at) does not abort the bulk reconstruction: the call returns and
\* what it returns is built from the well-formed incidents of the window.
C24_MalformedIncidentIsSkipped ==
  pd_stats # Pending =>
    /\ HasReturned(pd_stats)
    /\ pd_stats.value.total_incidents = Len(WellFormedIncidents)

(***************************************************************************)
(* SpecScan: one call of _get_incident_with_logs for a complete descriptor *)
(* over logs of every entry type and timestamp, and an acknowledge and a   *)
(* resolve entry without timestamp.                                        *)
(***************************************************************************)
ScanLogEntries ==
  {log \in LogEntries : log.created_at # NoTime}
  \cup {LogEntry("acknowledge_log_entry", NoTime, "Acknowledged by user", None),
        LogEntry("resolve_log_entry", NoTime, "Resolved by user", None)}

InitScan ==
  /\ incident_data = RawIncident("PD1", 0, "high")
  /\ log_entries \in SeqsUpTo(ScanLogEntries, MaxLogs)
  /\ incident = Pending
  /\ StatusIdle
  /\ StatsIdle
  /\ AnalysisIdle
  /\ VulnIdle
  /\ CacheIdle

SpecScan == InitScan /\ [][NextIncident]_vars

\* The entries at which the scan stops when they carry a timestamp.
IsStopEntry(log) ==
  log.type \in {"acknowledge_log_entry", "resolve_log_entry"} \/ IsTimeoutEscalation(log)

AllTimed(logs) == \A i \in 1..Len(logs) : logs[i].created_at # NoTime

\* How many of: first_acknowledge_time set, resolved_time set, timed_out.
OutcomesSet(inc) ==
  Cardinality({f \in {"ack", "resolved", "timeout"} :
                 \/ f = "ack" /\ inc.first_acknowledge_time # NoTime
                 \/ f = "resolved" /\ inc.resolved_time # NoTime
                 \/ f = "timeout" /\ inc.timed_out})

CursorAfter(k) ==
  GapLoop(SubSeq(SortedIncidents(StatsIncidents), 1, k), 1,
          WindowStart, 0, WindowEnd).current_end

\* C26: for incidents created inside the window and not resolved before
\* their creation, total_response_time lies between 0 and the length of
\* the window, and current_end never decreases during the pass.
C26_GapWithinWindowCursorMonotone ==
  (HasReturned(pd_stats) /\ ResolvedAfterCreated(StatsIncidents)) =>
    /\ 0 <= pd_stats.value.total_response_time
    /\ pd_stats.value.total_response_time <= WindowEnd - WindowStart
    /\ \A k \in 1..Len(StatsIncidents) : CursorAfter(k - 1) <= CursorAfter(k)

\* C26 witness: three incidents, supplied latest first, each moving
\* current_end forward, with uncovered time before the first of them.
C26_Witness ==
  /\ HasReturned(pd_stats)
  /\ Len(api_incidents) = 3
  /\ ResolvedAfterCreated(StatsIncidents)
  /\ StatsIncidents[1].created > StatsIncidents[3].created
  /\ WindowStart < CursorAfter(1)
  /\ CursorAfter(1) < CursorAfter(2)
  /\ CursorAfter(2) < CursorAfter(3)
  /\ 0 < pd_stats.value.total_response_time
  /\ pd_stats.value.total_response_time < WindowEnd - WindowStart

\* The rearrangements of a list of n elements.
Rearrangements(n) ==
  {f \in [1..n -> 1..n] : \A i, j \in 1..n : f[i] = f[j] => i = j}

Permuted(seq, f) == [i \in 1..Len(seq) |-> seq[f[i]]]

NeverResolvedBeforeCreated(incidents) ==
  \A i \in 1..Len(incidents) :
    incidents[i].resolved_time # NoTime =>
      incidents[i].resolved_time >= incidents[i].created

\* C27: for incidents not resolved before their creation, policy_statistics
\* gives the same statistics, field by field, whatever the order in which
\* the incidents are supplied.
C27_OrderIndependent ==
  (HasReturned(pd_stats) /\ NeverResolvedBeforeCreated(StatsIncidents)) =>
    \A f \in Rearrangements(Len(api_incidents)) :
      PolicyStatistics(Permuted(api_incidents, f), WindowStart, WindowEnd) = pd_stats

\* C27 witness: three incidents supplied out of order, two of them created
\* at the same instant and resolved at different ones, with uncovered time.
C27_Witness ==
  /\ HasReturned(pd_stats)
  /\ Len(api_incidents) = 3
  /\ NeverResolvedBeforeCreated(StatsIncidents)
  /\ StatsIncidents[1].created > StatsIncidents[2].created
  /\ StatsIncidents[2].created = StatsIncidents[3].created
  /\ StatsIncidents[2].resolved_time # NoTime
  /\ StatsIncidents[3].resolved_time # NoTime
  /\ StatsIncidents[2].resolved_time > StatsIncidents[3].resolved_time
  /\ pd_stats.value.total_response_time > 0

\* The stories the tracker holds under the in-progress epics among the
\* first n epics, epic after epic, each epic's stories in fetch order.
RECURSIVE StoriesOfInProgress(_)
StoriesOfInProgress(n) ==
  IF n = 0 THEN <<>>
  ELSE StoriesOfInProgress(n - 1)
         \o (IF n \in InProgressEpics THEN TrackerStories(n) ELSE <<>>)

ReportStoryKeys == {report.value.stories[m].key : m \in 1..Len(report.value.stories)}

\* C28: after a successful analyze_epics call report.epics is the input
\* list of epics, report.stories is the concatenation, in epic order and
\* then fetch order, of the stories fetched for the in-progress epics, no
\* story of an epic that is not in progress is in it, and every problem
\* about a story is about a story of report.stories.
C28_ReportEpicsAndStories ==
  HasReturned(report) =>
    /\ report.value.epics = epics
    /\ report.value.stories = StoriesOfInProgress(Len(epics))
    /\ \A e \in NotInProgressEpics :
         \A j \in 1..Len(TrackerStories(e)) : TrackerStories(e)[j].key \notin ReportStoryKeys
    /\ \A n \in 1..Len(report.value.problems) :
         report.value.problems[n].issue_type = "Story" =>
           report.value.problems[n].issue \in ReportStoryKeys

\* C28 witness: two in-progress epics with two stories each, and a problem
\* about the first story of the second epic.
C28_Witness ==
  /\ HasReturned(report)
  /\ InProgressEpics = {1, 2}
  /\ Len(report.value.stories) = 4
  /\ report.value.stories[3].key = <<2, 1>>
  /\ \E n \in 1..Len(report.value.problems) :
       /\ report.value.problems[n].issue_type = "Story"
       /\ report.value.problems[n].issue = <<2, 1>>

(***************************************************************************)
(* SpecBuild: one call of build_statistics: the analyze_epics call it      *)
(* makes, then its counts, over the epics of SpecRules and SpecStories.    *)
(***************************************************************************)
InitBuild == InitRules \/ InitStories

\* build_statistics after "report = self.analyze_epics(epics)".
CallBuildStatistics ==
  /\ report # Pending
  /\ exec_stats = Pending
  /\ exec_stats' = BuildStatistics(epics, report)
  /\ UNCHANGED <<analysisInputs, an_index, problems, all_stories, evaluations, report,
                 callVars, statusVars, incidentVars, statsVars, vulnVars, cacheVars>>

NextBuild == AnalyzeEpic \/ ReturnReport \/ CallBuildStatistics

SpecBuild == InitBuild /\ [][NextBuild]_vars

\* C29: analyze_epics never emits a problem of kind DUE_DATE_CHANGED: every
\* problem it collects and every problem of its report has one of the other
\* seven kinds, and the due_date_changed count of build_statistics is 0.
C29_DueDateChangedNeverEmitted ==
  /\ \A n \in 1..Len(problems) :
       problems[n].problem_type \in ProblemType \ {"DUE_DATE_CHANGED"}
  /\ HasReturned(report) =>
       \A n \in 1..Len(report.value.problems) :
         report.value.problems[n].problem_type \in ProblemType \ {"DUE_DATE_CHANGED"}
  /\ HasReturned(exec_stats) => exec_stats.value.due_date_changed = 0

\* C29 witness: statistics built from a report holding a passed due date
\* and a missing start date.
C29_Witness ==
  /\ HasReturned(exec_stats)
  /\ exec_stats.value.past_due_date >= 1
  /\ exec_stats.value.missing_start_date >= 1
  /\ exec_stats.value.due_date_changed = 0
  /\ exec_stats.value.past_due_date = CountProblems(report.value.problems, "PAST_DUE_DATE")

(***************************************************************************)
(* SpecCache: get_report calls on one ExecutionStatistics instance for     *)
(* teams of the configuration, while the epics the tracker holds change    *)
(* between the calls.                                                      *)
(***************************************************************************)
\* How many get_report calls are made on the instance.
MaxGetReports == 3

ProjectKeys == {"PLAT", "PAY"}

\* Two teams of different names, and a third sharing the first one's name.
Teams ==
  {Team("platform", <<"PLAT">>), Team("payments", <<"PAY", "PLAT">>),
   Team("platform", <<"PAY">>)}

TeamNames == {team.name : team \in Teams}

JIRAError == "JIRAError"

\* What get_epics_by_label may answer for a project: its epic in progress
\* with a fresh update, the epic done, the epic in a status get_status does
\* not know, or an error of the tracker.
TrackerAnswers(project_key) ==
  {Returned(<<Epic(<<project_key>>, Title(K_in_progress), NoTime, NoTime, OnTrackUpdate)>>),
   Returned(<<Epic(<<project_key>>, Title(K_done), NoTime, NoTime, NoEpicUpdate)>>),
   Returned(<<Epic(<<project_key>>, Title(U_triage), NoTime, NoTime, NoEpicUpdate)>>),
   Raised(JIRAError)}

TrackerStates ==
  {t \in [ProjectKeys -> UNION {TrackerAnswers(k) : k \in ProjectKeys}] :
     \A k \in ProjectKeys : t[k] \in TrackerAnswers(k)}

InitCache ==
  /\ reports = <<>>
  /\ tracker \in TrackerStates
  /\ last_call = NoCall
  /\ get_report_calls = 0
  /\ successes = [name \in TeamNames |-> 0]
  /\ failures = [name \in TeamNames |-> 0]
  /\ today = AnalysisToday
  /\ jira_stories = [k \in {<<key>> : key \in ProjectKeys} |->
                       <<Story(k \o <<"S1">>, Title(K_in_progress), NoTime, NoTime)>>]
  /\ ai_responses = [k \in {<<key>> : key \in ProjectKeys} |-> GoodResponse(LOW_SCORE)]
  /\ epics = <<>>
  /\ an_index = 0 /\ problems = <<>> /\ all_stories = <<>> /\ evaluations = <<>>
  /\ report = Raised("unused") /\ exec_stats = Raised("unused")
  /\ jira_calls = <<>> /\ ai_calls = <<>> /\ call_log = <<>>
  /\ StatusIdle
  /\ IncidentIdle
  /\ StatsIdle
  /\ VulnIdle

\* execution_statistics.get_report(team)
CallGetReport ==
  /\ get_report_calls < MaxGetReports
  /\ \E team \in Teams :
       LET call == GetReport(reports, team, today, tracker, jira_stories, ai_responses)
       IN  /\ reports' = call.reports
           /\ last_call' = [team |-> team, outcome |-> call.outcome, calls |-> call.calls]
           /\ successes' =
                [successes EXCEPT ![team.name] =
                   IF HasReturned(call.outcome) /\ call.calls # <<>> THEN @ + 1 ELSE @]
           /\ failures' =
                [failures EXCEPT ![team.name] =
                   IF ~HasReturned(call.outcome) THEN @ + 1 ELSE @]
  /\ get_report_calls' = get_report_calls + 1
  /\ UNCHANGED <<tracker, statusVars, incidentVars, statsVars, analysisVars, vulnVars>>

\* Between two calls the epics of the tracker change.
TrackerChanges ==
  /\ tracker' \in TrackerStates \ {tracker}
  /\ UNCHANGED <<reports, last_call, get_report_calls, successes, failures,
                 statusVars, incidentVars, statsVars, analysisVars, vulnVars>>

NextCache == CallGetReport \/ TrackerChanges

SpecCache == InitCache /\ [][NextCache]_vars

\* A step that is a get_report call.
GetReportStep == get_report_calls' = get_report_calls + 1

\* C30: on one ExecutionStatistics instance a report is computed at most
\* once per team name: a get_report call for a name that is in self.reports
\* returns the report stored there without any call to the tracker or the
\* oracle and leaves self.reports as it is, whatever the tracker holds by
\* then; a call for a name that is not there fetches the epics again; a
\* call that fails leaves self.reports unchanged and a call that succeeds
\* stores what it returns.
C30_ReportComputedOncePerTeamName ==
  /\ [](\A name \in DOMAIN successes : successes[name] <= 1)
  /\ [][GetReportStep =>
          LET name == last_call'.team.name
          IN  /\ name \in DOMAIN reports =>
                   /\ last_call'.calls = <<>>
                   /\ last_call'.outcome = Returned(reports[name])
                   /\ reports' = reports
              /\ name \notin DOMAIN reports =>
                   /\ last_call'.calls # <<>>
                   /\ last_call'.calls[1] = EpicFetch(last_call'.team.project_keys[1])
              /\ ~HasReturned(last_call'.outcome) => reports' = reports
              /\ HasReturned(last_call'.outcome) =>
                   /\ name \in DOMAIN reports'
                   /\ reports'[name] = last_call'.outcome.value]_vars
  /\ [][~GetReportStep => reports' = reports]_vars

\* C30 witness: for one team name a call failed, a later call computed the
\* report, and the last call returned that report without any call to the
\* tracker although a computation now would give another outcome.
C30_Witness ==
  /\ get_report_calls = 3
  /\ last_call.team.name = "payments"
  /\ failures["payments"] = 1
  /\ successes["payments"] = 1
  /\ last_call.calls = <<>>
  /\ last_call.outcome = Returned(reports["payments"])
  /\ ComputeReport(last_call.team, today, tracker, jira_stories, ai_responses).outcome
       # last_call.outcome

============================================================================
